---- MODULE Spec2Model ----
(***************************************************************************)
(* Model of scripts/agent_bounty_hunter.py: the payout-state classifier,   *)
(* the comment-posting gate, the reward extractor, the triage functions    *)
(* (difficulty, capability fit, rank score), the scan of open bounties,    *)
(* the claim-template command, the discovery of monitor targets and the    *)
(* monitor run; and of the in-memory bridge and the agent of               *)
(* integrations/energypantry-beacon/energypantry_beacon_agent.py.          *)
(*                                                                         *)
(* Amounts are integers: rewards and scores in thousandths, fit scores in  *)
(* hundredths. A request to the platform is modelled by its outcome: the   *)
(* decoded value, or the exception urlopen, read or json.loads raises.     *)
(*                                                                         *)
(* Text is modelled at the granularity of tokens: a string is a sequence   *)
(* of tokens (words, denominated numbers, the line break "\n"), substring  *)
(* search is search for a contiguous run of tokens, and the regular        *)
(* expressions are modelled by what they extract from each token.          *)
(***************************************************************************)
EXTENDS Integers, Sequences, FiniteSets, TLC

VARIABLES
    comments,      \* the comments of the tracked issue on the platform, oldest first
    sigCall,       \* the last call of payout_signal_from_comments: argument and result
    actCall,       \* the last call of classify_payout_action: arguments and result
    prevCall,      \* the call of classify_payout_action before the last one
    post,          \* the last post-comment command: its flags and what came of it
    httpPosts,     \* number of HTTP POST requests issued so far
    written,       \* number of comments created on the platform so far
    title,         \* the title handed to parse_reward and to the triage functions
    body,          \* the body handed to parse_reward and to the triage functions
    reward,        \* the result of parse_reward on (body, title)
    difficulty,    \* the result of estimate_difficulty on (title, body)
    fit,           \* the result of capability_fit on (title, body), in hundredths
    rank,          \* the last call of rank_score: arguments and result
    listing,       \* the platform's answer to the request for the open bounty issues
    scanCall,      \* the last call of scan: arguments and outcome
    detail,        \* the platform's answer to the request for the issue to claim
    claimCall,     \* the last claim-template command: what it raised or printed
    search,        \* the platform's answer to the search for the issues the handle commented on
    threads,       \* the platform's answer to the request for the comments of each issue
    discoverCall,  \* the last call of discover_monitor_targets: its outcome
    targets,       \* the targets handed to monitor_targets
    answers,       \* the platform's answers to the requests for each target
    monitorCall,   \* the last call of monitor_targets: its outcome
    events,        \* _events of the in-memory beacon bridge, oldest first
    beaconCall     \* the last call on the bridge or its agent: the method and what it returned

vars == <<comments, sigCall, actCall, prevCall, post, httpPosts, written,
          title, body, reward, difficulty, fit, rank, listing, scanCall,
          detail, claimCall, search, threads, discoverCall, targets, answers,
          monitorCall, events, beaconCall>>

signalVars == <<comments, sigCall>>
classifyVars == <<actCall, prevCall>>
postVars == <<post, httpPosts, written>>
rewardVars == <<title, body, reward>>
triageVars == <<difficulty, fit>>
rankVars == <<rank>>
scanVars == <<listing, scanCall>>
claimVars == <<detail, claimCall>>
discoverVars == <<search, threads, discoverCall>>
monitorVars == <<targets, answers, monitorCall>>
beaconVars == <<events, beaconCall>>

\* The variables a concern leaves alone: those of the other concerns.
exceptSignal == <<classifyVars, postVars, rewardVars, triageVars, rankVars,
                  scanVars, claimVars, discoverVars, monitorVars, beaconVars>>
exceptClassify == <<signalVars, postVars, rewardVars, triageVars, rankVars,
                    scanVars, claimVars, discoverVars, monitorVars, beaconVars>>
exceptPost == <<signalVars, classifyVars, rewardVars, triageVars, rankVars,
                scanVars, claimVars, discoverVars, monitorVars, beaconVars>>
exceptReward == <<signalVars, classifyVars, postVars, triageVars, rankVars,
                  scanVars, claimVars, discoverVars, monitorVars, beaconVars>>
exceptTriage == <<signalVars, classifyVars, postVars, rewardVars, rankVars,
                  scanVars, claimVars, discoverVars, monitorVars, beaconVars>>
exceptRank == <<signalVars, classifyVars, postVars, rewardVars, triageVars,
                scanVars, claimVars, discoverVars, monitorVars, beaconVars>>
exceptScan == <<signalVars, classifyVars, postVars, rewardVars, triageVars,
                rankVars, claimVars, discoverVars, monitorVars, beaconVars>>
exceptClaim == <<signalVars, classifyVars, postVars, rewardVars, triageVars,
                 rankVars, scanVars, discoverVars, monitorVars, beaconVars>>
exceptDiscover == <<signalVars, classifyVars, postVars, rewardVars, triageVars,
                    rankVars, scanVars, claimVars, monitorVars, beaconVars>>
exceptMonitor == <<signalVars, classifyVars, postVars, rewardVars, triageVars,
                   rankVars, scanVars, claimVars, discoverVars, beaconVars>>
exceptBeacon == <<signalVars, classifyVars, postVars, rewardVars, triageVars,
                  rankVars, scanVars, claimVars, discoverVars, monitorVars>>

-----------------------------------------------------------------------------
(* Bounds of the model *)

\* The number of comments on the tracked issue.
MaxComments == 3
\* The number of HTTP POST requests after which no further command is run.
MaxCalls == 3
\* The number of tokens of a title and a body together.
MaxTextLen == 4

\* Rewards up to this many thousandths of a dollar are all handed to rank_score.
MaxMilli == 30
\* The number of items of an issue listing.
MaxIssues == 3
\* The largest --top a scan is given.
MaxTop == 3
\* The number of items of a search result.
MaxItems == 2
\* The number of comments of one issue the discovery reads.
MaxThread == 2
\* The number of targets of a monitor run.
MaxTargets == 2
\* The number of events the history of the beacon bridge holds.
MaxEvents == 4

-----------------------------------------------------------------------------
(* Generic helpers on token sequences *)

\* Python's `needle in haystack` on token sequences: a contiguous occurrence.
Contains(hay, needle) ==
    \E i \in 0..(Len(hay) - Len(needle)) :
        \A j \in 1..Len(needle) : hay[i + j] = needle[j]

\* str.lower() on one token; the vocabulary's capitalised tokens are listed.
LowerTok(w) ==
    CASE w = "Paid" -> "paid"
      [] w = "Pool" -> "pool"
      [] w = "Reward" -> "reward"
      [] w = "Bounty" -> "bounty"
      [] w = "Critical" -> "critical"
      [] w = "Security API" -> "security api"
      [] w = "Python" -> "python"
      [] w = "David-code-tang" -> "david-code-tang"
      [] OTHER -> w

Lower(s) == [i \in 1..Len(s) |-> LowerTok(s[i])]

\* Variant: "".join(parts), the parts follow each other directly.
RECURSIVE JoinFlat(_)
JoinFlat(parts) ==
    IF Len(parts) = 0 THEN <<>>
    ELSE parts[1] \o JoinFlat(Tail(parts))

\* "\n".join(parts)
RECURSIVE JoinLines(_)
JoinLines(parts) ==
    IF Len(parts) = 0 THEN <<>>
    ELSE IF Len(parts) = 1 THEN parts[1]
    ELSE parts[1] \o <<"\n">> \o JoinLines(Tail(parts))

-----------------------------------------------------------------------------
(* Payout signal mined from comments *)

QueuedCues == { <<"payout", "queued">>, <<"queued", "id">>, <<"pending", "id">> }
PaidCues == { <<"paid">>, <<"payout", "sent">>, <<"confirmed", "payout">> }
NeedsUpdateCues == { <<"changes", "requested">>, <<"please", "update">>,
                     <<"partial", "progress">> }

AnyIn(cues, text) == \E k \in cues : Contains(text, k)

\* The lowercased comment bodies joined by line breaks.
CommentText(cs) == JoinLines([i \in 1..Len(cs) |-> Lower(cs[i].body)])

\* payout_signal_from_comments: the queued cues are looked for first.
PayoutSignalFromComments(cs) ==
    LET text == CommentText(cs)
    IN  IF AnyIn(QueuedCues, text) THEN "queued"
        ELSE IF AnyIn(PaidCues, text) THEN "paid"
        ELSE IF AnyIn(NeedsUpdateCues, text) THEN "needs_update"
        ELSE "none"

\* The comment texts the platform may hold.
CommentBodies ==
    { <<>>,
      <<"thanks">>,
      <<"Paid", "thanks">>,
      <<"payout", "queued">>,
      <<"payout">>,
      <<"queued", "id">>,
      <<"payout", "sent">>,
      <<"sent">>,
      <<"please", "update">> }

NoSigCall == [arg |-> <<>>, ret |-> "unset"]

\* Somebody comments on the issue.
AddComment(b) ==
    /\ Len(comments) < MaxComments
    /\ comments' = Append(comments, [body |-> b])
    /\ UNCHANGED <<sigCall, exceptSignal>>

CallPayoutSignal ==
    /\ sigCall' = [arg |-> comments, ret |-> PayoutSignalFromComments(comments)]
    /\ UNCHANGED <<comments, exceptSignal>>

-----------------------------------------------------------------------------
(* Payout action *)

Signals == {"paid", "queued", "needs_update", "none"}
PrStates == {"open", "closed", "unknown", "missing"}
IssueStates == {"open", "closed", "unknown"}

\* The variant in which a closed pull request is looked at before the signal.
ClassifyClosedFirst(merged, pr_state, issue_state, payout_signal) ==
    IF pr_state = "closed" THEN "check_followup"
    ELSE IF payout_signal = "paid" THEN "complete"
    ELSE IF payout_signal = "queued" THEN "wait_payout_queue"
    ELSE IF payout_signal = "needs_update" THEN "address_review"
    ELSE IF merged THEN "request_payout"
    ELSE IF issue_state = "closed" THEN "verify_closure"
    ELSE "wait_for_review"

\* The variant in which the merge state is looked at before the signal.
ClassifyMergedFirst(merged, pr_state, issue_state, payout_signal) ==
    IF merged THEN "request_payout"
    ELSE IF payout_signal = "paid" THEN "complete"
    ELSE IF payout_signal = "queued" THEN "wait_payout_queue"
    ELSE IF payout_signal = "needs_update" THEN "address_review"
    ELSE IF pr_state = "closed" THEN "check_followup"
    ELSE IF issue_state = "closed" THEN "verify_closure"
    ELSE "wait_for_review"

ClassifyPayoutAction(merged, pr_state, issue_state, payout_signal) ==
    IF payout_signal = "paid" THEN "complete"
    ELSE IF payout_signal = "queued" THEN "wait_payout_queue"
    ELSE IF payout_signal = "needs_update" THEN "address_review"
    ELSE IF merged THEN "request_payout"
    ELSE IF pr_state = "closed" THEN "check_followup"
    ELSE IF issue_state = "closed" THEN "verify_closure"
    ELSE "wait_for_review"

NoActCall == [merged |-> FALSE, pr_state |-> "missing", issue_state |-> "unknown",
              payout_signal |-> "none", ret |-> "unset"]

CallClassify(m, p, i, s) ==
    /\ prevCall' = actCall
    /\ actCall' = [merged |-> m, pr_state |-> p, issue_state |-> i,
                   payout_signal |-> s, ret |-> ClassifyPayoutAction(m, p, i, s)]
    /\ UNCHANGED exceptClassify

-----------------------------------------------------------------------------
(* Posting a comment *)

PreviewLimit == 280

Tokens == {"", "ghp_token"}
BodyLens == {0, PreviewLimit, PreviewLimit + 1}

\* The variant of gh_post that does not look at the token.
GhPostNoTokenCheck(token, netOk) ==
    IF netOk THEN [raised |-> "", http |-> 1, written |-> 1]
    ELSE [raised |-> "HTTPError", http |-> 1, written |-> 0]

\* gh_post: what it raises, whether the request went out, whether a comment was made.
GhPost(token, netOk) ==
    IF token = "" THEN [raised |-> "ValueError", http |-> 0, written |-> 0]
    ELSE IF netOk THEN [raised |-> "", http |-> 1, written |-> 1]
    ELSE [raised |-> "HTTPError", http |-> 1, written |-> 0]

Min(a, b) == IF a < b THEN a ELSE b

DryRunRecord(bodyLen) ==
    [mode |-> "dry-run", posted |-> FALSE, preview |-> Min(bodyLen, PreviewLimit),
     raised |-> "", http |-> 0, written |-> 0]

\* The variant whose gate falls back to the preview only when both flags ask for it.
PostIssueCommentAndGate(bodyLen, token, dry_run, confirm, netOk) ==
    IF dry_run /\ ~confirm THEN DryRunRecord(bodyLen)
    ELSE LET p == GhPost(token, netOk)
         IN  IF p.raised # ""
             THEN [mode |-> "raised", posted |-> FALSE, preview |-> 0,
                   raised |-> p.raised, http |-> p.http, written |-> p.written]
             ELSE [mode |-> "live", posted |-> TRUE, preview |-> 0,
                   raised |-> "", http |-> p.http, written |-> p.written]

PostIssueComment(bodyLen, token, dry_run, confirm, netOk) ==
    IF dry_run \/ ~confirm THEN DryRunRecord(bodyLen)
    ELSE LET p == GhPost(token, netOk)
         IN  IF p.raised # ""
             THEN [mode |-> "raised", posted |-> FALSE, preview |-> 0,
                   raised |-> p.raised, http |-> p.http, written |-> p.written]
             ELSE [mode |-> "live", posted |-> TRUE, preview |-> 0,
                   raised |-> "", http |-> p.http, written |-> p.written]

NoPost == [called |-> FALSE, dry_run |-> TRUE, confirm |-> FALSE, token |-> "",
           bodyLen |-> 0, out |-> DryRunRecord(0)]

\* main, command post-comment: dry_run is the negation of --no-dry-run.
MainPostComment(no_dry_run, confirm, token, bodyLen, netOk) ==
    LET dry_run == ~no_dry_run
        out == PostIssueComment(bodyLen, token, dry_run, confirm, netOk)
    IN  /\ httpPosts < MaxCalls
        /\ post' = [called |-> TRUE, dry_run |-> dry_run, confirm |-> confirm,
                    token |-> token, bodyLen |-> bodyLen, out |-> out]
        /\ httpPosts' = httpPosts + out.http
        /\ written' = written + out.written
        /\ UNCHANGED exceptPost

-----------------------------------------------------------------------------------------------------------------------------------------------------
(* Reward extractor *)

\* Amounts, RTC and dollars alike, are kept in thousandths.
Milli(n) == n * 1000

\* 1 / RTC_USD_REF: RTC_USD_REF = 0.10 dollars per RTC is ten RTC per dollar.
\* The amounts of the vocabulary are multiples of 0.01 RTC, so that the
\* conversion stays in the integers.
RtcPerUsd == 10

TitleToks == {"Pool", "Reward", "Bounty", "30 RTC", "2k RTC", "0 RTC", "$5"}
BodyToks == TitleToks \cup {"\n"}

SeqsUpTo(S, n) == UNION {[1..k -> S] : k \in 0..n}

\* _suffix_multiplier
SuffixMultiplier(suffix) ==
    CASE suffix = "k" -> 1000
      [] suffix = "m" -> 1000000
      [] OTHER -> 1

\* What NUM_TOKEN_RE followed by \s*RTC finds in one token: (raw, suffix) pairs.
RtcMatches(tok) ==
    CASE tok = "30 RTC" -> << <<Milli(30), "">> >>
      [] tok = "2k RTC" -> << <<Milli(2), "k">> >>
      [] tok = "0 RTC" -> << <<0, "">> >>
      [] tok = "1.04 RTC" -> << <<1040, "">> >>
      [] OTHER -> <<>>

\* What \$\s* followed by NUM_TOKEN_RE finds in one token.
UsdMatches(tok) ==
    CASE tok = "$5" -> << <<Milli(5), "">> >>
      [] OTHER -> <<>>

MatchValues(ms) == [i \in 1..Len(ms) |-> ms[i][1] * SuffixMultiplier(ms[i][2])]

\* _extract_amounts with the RTC suffix pattern: the values found, in text order.
RECURSIVE ExtractAmounts(_)
ExtractAmounts(text) ==
    IF Len(text) = 0 THEN <<>>
    ELSE MatchValues(RtcMatches(Head(text))) \o ExtractAmounts(Tail(text))

\* _extract_usd_amounts
RECURSIVE ExtractUsdAmounts(_)
ExtractUsdAmounts(text) ==
    IF Len(text) = 0 THEN <<>>
    ELSE MatchValues(UsdMatches(Head(text))) \o ExtractUsdAmounts(Tail(text))

\* The variant of _pick that adds the values up.
RECURSIVE PickSum(_, _)
PickSum(values, default) ==
    IF Len(values) = 0 THEN default
    ELSE Head(values) + PickSum(Tail(values), 0)

\* _pick: max(values) if values else default
Pick(values, default) ==
    IF Len(values) = 0 THEN default
    ELSE CHOOSE v \in {values[i] : i \in 1..Len(values)} :
             \A j \in 1..Len(values) : v >= values[j]

\* str.splitlines(): the lines between line breaks, no empty line after a final break.
RECURSIVE SplitLines(_)
SplitLines(text) ==
    IF Len(text) = 0 THEN <<>>
    ELSE IF \E i \in 1..Len(text) : text[i] = "\n"
         THEN LET k == CHOOSE i \in 1..Len(text) :
                          text[i] = "\n" /\ \A j \in 1..(i - 1) : text[j] # "\n"
              IN  <<SubSeq(text, 1, k - 1)>> \o SplitLines(SubSeq(text, k + 1, Len(text)))
         ELSE <<text>>

\* The cue words of the line search, and those of the last-resort regular expression.
LineCues == {"reward", "bounty", "earn", "payout", "prize"}
WordCues == {"reward", "earn", "payout"}

HasPool(text) == Contains(Lower(text), <<"pool">>)
HasLineCue(line) == \E k \in LineCues : Contains(Lower(line), <<k>>)
HasWordCue(text) == \E k \in WordCues : Contains(Lower(text), <<k>>)

\* f"{title}\n{body or ''}"
FullText(b, t) == t \o <<"\n">> \o b

\* The variant of the title tier that takes the first amount found, not the largest.
TitleTierFirstFound(t) ==
    LET title_rtc == IF ~HasPool(t) THEN ExtractAmounts(t) ELSE <<>>
        title_usd == ExtractUsdAmounts(t)
    IN  << IF Len(title_rtc) = 0 THEN 0 ELSE title_rtc[1],
           IF Len(title_usd) = 0 THEN 0 ELSE title_usd[1] >>

\* Lines 118-122: the amounts the title declares; no token amount from a pool title.
TitleTier(t) ==
    LET title_rtc == IF ~HasPool(t) THEN ExtractAmounts(t) ELSE <<>>
        title_usd == ExtractUsdAmounts(t)
    IN  <<Pick(title_rtc, 0), Pick(title_usd, 0)>>

\* The amounts of the lines the search keeps, per currency.
RECURSIVE CueLineValues(_, _)
CueLineValues(lines, skipPool) ==
    IF Len(lines) = 0 THEN <<<<>>, <<>>>>
    ELSE LET line == Head(lines)
             rest == CueLineValues(Tail(lines), skipPool)
         IN  IF skipPool /\ HasPool(line) THEN rest
             ELSE IF HasLineCue(line)
                  THEN <<ExtractAmounts(line) \o rest[1],
                         ExtractUsdAmounts(line) \o rest[2]>>
                  ELSE rest

\* The variant of the line search that does not skip the pool lines.
LineTierKeepsPoolLines(text) ==
    LET vals == CueLineValues(SplitLines(text), FALSE)
    IN  <<Pick(vals[1], 0), Pick(vals[2], 0)>>

\* Lines 126-136: the largest amounts on the cue lines that do not mention a pool.
LineTier(text) ==
    LET vals == CueLineValues(SplitLines(text), TRUE)
    IN  <<Pick(vals[1], 0), Pick(vals[2], 0)>>

\* The variant of the last resort that keeps the amounts of a text that mentions
\* nothing but a pool.
LastResortKeepsPool(text) ==
    <<Pick(ExtractAmounts(text), 0), Pick(ExtractUsdAmounts(text), 0)>>

\* Lines 144-149: any amount of the text, unless it mentions a pool and none of
\* the words reward, earn, payout.
LastResort(text) ==
    IF HasPool(text) /\ ~HasWordCue(text) THEN <<0, 0>>
    ELSE <<Pick(ExtractAmounts(text), 0), Pick(ExtractUsdAmounts(text), 0)>>

Zero(pair) == pair[1] = 0 /\ pair[2] = 0

\* Lines 115-149 of parse_reward: (reward_rtc, reward_usd) before the cross-fill.
FindReward(b, t) ==
    LET text == FullText(b, t)
        tier1 == TitleTier(t)
        tier2 == IF Zero(tier1) THEN LineTier(text) ELSE tier1
    IN  IF Zero(tier2) /\ HasPool(t) THEN <<0, 0>>
        ELSE IF Zero(tier2) THEN LastResort(text)
        ELSE tier2

\* The variant of the cross-fill that derives the dollars but not the RTC.
CrossFillUsdOnly(pair) ==
    IF pair[2] = 0 /\ pair[1] > 0 THEN <<pair[1], pair[1] \div RtcPerUsd>> ELSE pair

\* Lines 151-156: the side that is zero is derived from the other one.
CrossFill(pair) ==
    LET reward_rtc == pair[1]
        reward_usd == IF pair[2] = 0 /\ pair[1] > 0 THEN pair[1] \div RtcPerUsd
                      ELSE pair[2]
    IN  IF reward_rtc = 0 /\ reward_usd > 0 THEN <<reward_usd * RtcPerUsd, reward_usd>>
        ELSE <<reward_rtc, reward_usd>>

ParseReward(b, t) == CrossFill(FindReward(b, t))

NoReward == [done |-> FALSE, found |-> <<0, 0>>, rtc |-> 0, usd |-> 0]

\* parse_reward(body, title) is called; `found` keeps the pair of line 150.
CallParseReward ==
    /\ ~reward.done
    /\ reward' = [done |-> TRUE, found |-> FindReward(body, title),
                  rtc |-> ParseReward(body, title)[1],
                  usd |-> ParseReward(body, title)[2]]
    /\ UNCHANGED <<title, body, exceptReward>>

-----------------------------------------------------------------------------
(* Difficulty estimator *)

\* The keywords that occur in a lowercased token (substring search within it).
TermsIn(tok) ==
    CASE tok = "critical" -> {"critical"}
      [] tok = "$1000" -> {"1000", "$1000"}
      [] tok = "tooling" -> {"tool"}
      [] tok = "security api" -> {"security", "api"}
      [] tok = "docs" -> {"docs"}
      [] tok = "python" -> {"python"}
      [] tok = "docs readme" -> {"docs", "readme"}
      [] tok = "seo tutorial script bot" -> {"seo", "tutorial", "script", "bot"}
      [] tok = "audit review markdown documentation"
             -> {"audit", "review", "markdown", "documentation"}
      [] tok = "dos" -> {"dos"}
      [] tok = "3d webgl" -> {"3d", "webgl"}
      [] tok = "real hardware sparc windows 3.1 physical"
             -> {"real hardware", "sparc", "windows 3.1", "physical"}
      [] OTHER -> {}

\* `k in text` for a keyword k and a lowercased text.
Occurs(k, text) == \E i \in 1..Len(text) : k \in TermsIn(text[i])

\* The keywords k with `k in text`.
TermsOf(text) == UNION {TermsIn(text[i]) : i \in 1..Len(text)}

HardTerms == {"critical", "security", "red team", "hardening", "consensus", "major",
              "1000", "$1000"}
MidTerms == {"standard", "dashboard", "tool", "api", "integration", "export"}

\* f"{title}\n{body}".lower()
TriageText(t, b) == Lower(t \o <<"\n">> \o b)

\* The variant that looks for the medium keywords first.
EstimateDifficultyMidFirst(t, b) ==
    LET text == TriageText(t, b)
    IN  IF \E k \in MidTerms : Occurs(k, text) THEN "medium"
        ELSE IF \E k \in HardTerms : Occurs(k, text) THEN "high"
        ELSE "low"

\* estimate_difficulty
EstimateDifficulty(t, b) ==
    LET text == TriageText(t, b)
    IN  IF \E k \in HardTerms : Occurs(k, text) THEN "high"
        ELSE IF \E k \in MidTerms : Occurs(k, text) THEN "medium"
        ELSE "low"

\* The words of the titles and bodies handed to estimate_difficulty.
DiffToks == {"Critical", "$1000", "tooling", "Security API", "docs"}

NoDifficulty == [done |-> FALSE, ret |-> "unset"]

CallEstimateDifficulty ==
    /\ ~difficulty.done
    /\ difficulty' = [done |-> TRUE, ret |-> EstimateDifficulty(title, body)]
    /\ UNCHANGED <<fit, exceptTriage>>

-----------------------------------------------------------------------------
(* Capability-fit scorer; scores are kept in hundredths *)

PlusTerms == {"documentation", "docs", "readme", "seo", "tutorial", "python", "script",
              "bot", "audit", "review", "markdown"}
MinusTerms == {"real hardware", "3d", "webgl", "dos", "sparc", "windows 3.1", "physical"}

\* score = 0.5, += 0.06 for a plus keyword, -= 0.08 for a minus keyword, at most 1.0
FitStart == 50
PlusStep == 6
MinusStep == 8
FitMax == 100

Max(a, b) == IF a > b THEN a ELSE b

\* The variant that returns the score without clamping it.
CapabilityFitUnclamped(t, b) ==
    LET found == TermsOf(TriageText(t, b))
    IN  FitStart + PlusStep * Cardinality({k \in PlusTerms : k \in found})
                 - MinusStep * Cardinality({k \in MinusTerms : k \in found})

\* The variant that stops at the first keyword of each list that matches.
CapabilityFitFirstMatch(t, b) ==
    LET found == TermsOf(TriageText(t, b))
        p == IF \E k \in PlusTerms : k \in found THEN 1 ELSE 0
        m == IF \E k \in MinusTerms : k \in found THEN 1 ELSE 0
    IN  Max(0, Min(FitMax, FitStart + PlusStep * p - MinusStep * m))

\* capability_fit: every keyword that occurs counts once.
CapabilityFit(t, b) ==
    LET found == TermsOf(TriageText(t, b))
        p == Cardinality({k \in PlusTerms : k \in found})
        m == Cardinality({k \in MinusTerms : k \in found})
    IN  Max(0, Min(FitMax, FitStart + PlusStep * p - MinusStep * m))

\* The text fragments of the titles and bodies handed to capability_fit.
FitToks == {"Python", "docs readme", "seo tutorial script bot",
            "audit review markdown documentation",
            "dos", "3d webgl", "real hardware sparc windows 3.1 physical"}

NoFit == [done |-> FALSE, ret |-> 0]

CallCapabilityFit ==
    /\ ~fit.done
    /\ fit' = [done |-> TRUE, ret |-> CapabilityFit(title, body)]
    /\ UNCHANGED <<difficulty, exceptTriage>>

-----------------------------------------------------------------------------
(* Rank score; rewards and scores in thousandths, fit in hundredths *)

Difficulties == {"low", "medium", "high"}

\* diff_penalty, in thousandths.
DiffPenalty(d) == CASE d = "low" -> 0 [] d = "medium" -> 800 [] d = "high" -> 1600

\* round(n / d) for n >= 0 and odd d: the nearest integer (with an odd
\* divisor no quotient is half way between two integers).
RoundDiv(n, d) == (2 * n + d) \div (2 * d)

\* Variant: the reward term is cut off after three decimals, not rounded.
RankScoreTruncated(usd, d, f) == (usd \div 25) + 30 * f - DiffPenalty(d)

\* rank_score: reward_usd / 25 is usd / 25 thousandths, fit * 3 is 30 * f
\* thousandths; the last two terms are whole thousandths, so rounding the
\* sum to three decimals rounds the reward term.
RankScore(usd, d, f) == RoundDiv(usd, 25) + 30 * f - DiffPenalty(d)

\* Rewards handed to rank_score: every small amount, and two amounts of
\* whole dollars.
RankUsd == 0..MaxMilli \cup {Milli(25), Milli(100)}

\* The values capability_fit can return, in hundredths.
FitValues == {f \in 0..FitMax : f % 2 = 0}

NoRank == [done |-> FALSE, usd |-> 0, diff |-> "low", fit |-> 0, ret |-> 0]

CallRankScore ==
    /\ ~rank.done
    /\ rank' = [rank EXCEPT !.done = TRUE,
                            !.ret = RankScore(rank.usd, rank.diff, rank.fit)]
    /\ UNCHANGED exceptRank

-----------------------------------------------------------------------------
(* Fetching from the platform *)

\* What urlopen, resp.read() and json.loads of gh_get can raise: the four
\* kinds gh_get_safe names, and json.loads rejecting a body that is not JSON.
CaughtErrors == {"HTTPError", "URLError", "TimeoutError", "RemoteDisconnected"}
FetchErrors == CaughtErrors \cup {"JSONDecodeError"}

\* The outcome of a request: the decoded JSON value, or the exception raised.
Ok(v) == [raised |-> "", value |-> v]
Raise(kind) == [raised |-> kind, value |-> <<>>]

\* gh_get: returns what the platform answers, raises what the request raises.
GhGet(resp) == resp

\* gh_get_safe: the fallback stands in for the four kinds of the except clause.
GhGetSafe(resp, fallback) ==
    IF resp.raised \in CaughtErrors THEN Ok(fallback) ELSE GhGet(resp)

-----------------------------------------------------------------------------
(* Scanning and ranking the open bounties *)

\* s[:n]
Slice(s, n) ==
    IF n >= 0 THEN SubSeq(s, 1, Min(n, Len(s)))
    ELSE SubSeq(s, 1, Max(0, Len(s) + n))

\* The default of fetch_open_bounties' limit.
FetchLimit == 200

\* Variant: the pull requests stay in.
WithPulls(items) == items

\* [i for i in items if "pull_request" not in i]
RECURSIVE WithoutPulls(_)
WithoutPulls(items) ==
    IF Len(items) = 0 THEN <<>>
    ELSE IF Head(items).pull_request THEN WithoutPulls(Tail(items))
    ELSE <<Head(items)>> \o WithoutPulls(Tail(items))

\* Variant: a failed listing request counts as an empty listing.
FetchOpenBountiesSafe(resp) ==
    LET got == GhGetSafe(resp, [isList |-> TRUE, items |-> <<>>])
    IN  IF got.raised # "" THEN got
        ELSE IF ~got.value.isList THEN Ok(<<>>)
        ELSE Ok(Slice(WithoutPulls(got.value.items), FetchLimit))

\* fetch_open_bounties: the issues of the listing that are not pull requests.
FetchOpenBounties(resp) ==
    LET got == GhGet(resp)
    IN  IF got.raised # "" THEN got
        ELSE IF ~got.value.isList THEN Ok(<<>>)
        ELSE Ok(Slice(WithoutPulls(got.value.items), FetchLimit))

\* round(x, 2) of an amount in thousandths: the nearest hundredth.
RoundCents(x) == ((x + 5) \div 10) * 10

\* Lines 234-246: the Lead of an issue (url and updated_at, copied from the
\* issue, are left out). reward_rtc and capability_fit are rounded to three
\* decimals, which thousandths and hundredths have.
MakeLead(i) ==
    LET r == ParseReward(i.body, i.title)
        diff == EstimateDifficulty(i.title, i.body)
        f == CapabilityFit(i.title, i.body)
    IN  [number |-> i.number, title |-> i.title,
         reward_rtc |-> r[1], reward_usd |-> RoundCents(r[2]),
         difficulty |-> diff, capability_fit |-> f,
         score |-> RankScore(r[2], diff, f)]

\* Lines 225-247: the leads of the issues whose reward reaches the floor.
RECURSIVE ScanLoop(_, _)
ScanLoop(issues, min_usd) ==
    IF Len(issues) = 0 THEN <<>>
    ELSE LET i == Head(issues)
             rest == ScanLoop(Tail(issues), min_usd)
         IN  IF ParseReward(i.body, i.title)[2] < min_usd THEN rest
             ELSE <<MakeLead(i)>> \o rest

\* Variant: the lead goes in front of the leads that score as much.
RECURSIVE InsertBeforeTies(_, _)
InsertBeforeTies(x, s) ==
    IF Len(s) = 0 THEN <<x>>
    ELSE IF Head(s).score > x.score THEN <<Head(s)>> \o InsertBeforeTies(x, Tail(s))
    ELSE <<x>> \o s

\* Where list.sort puts a lead among leads sorted already: behind the leads
\* that score as much or more.
RECURSIVE InsertByScore(_, _)
InsertByScore(x, s) ==
    IF Len(s) = 0 THEN <<x>>
    ELSE IF Head(s).score >= x.score THEN <<Head(s)>> \o InsertByScore(x, Tail(s))
    ELSE <<x>> \o s

\* Variant: the lead goes behind the leads that score as much or less.
RECURSIVE InsertAscending(_, _)
InsertAscending(x, s) ==
    IF Len(s) = 0 THEN <<x>>
    ELSE IF Head(s).score <= x.score THEN <<Head(s)>> \o InsertAscending(x, Tail(s))
    ELSE <<x>> \o s

\* Variant: leads.sort(key=score) without reverse=True.
RECURSIVE SortAscending(_)
SortAscending(leads) ==
    IF Len(leads) = 0 THEN <<>>
    ELSE InsertAscending(leads[Len(leads)], SortAscending(SubSeq(leads, 1, Len(leads) - 1)))

\* leads.sort(key=lambda x: x.score, reverse=True): descending and stable.
RECURSIVE SortByScore(_)
SortByScore(leads) ==
    IF Len(leads) = 0 THEN <<>>
    ELSE InsertByScore(leads[Len(leads)], SortByScore(SubSeq(leads, 1, Len(leads) - 1)))

\* scan
Scan(resp, top, min_usd) ==
    LET issues == FetchOpenBounties(resp)
    IN  IF issues.raised # "" THEN issues
        ELSE Ok(Slice(SortByScore(ScanLoop(issues.value, min_usd)), top))

\* The issues a listing is made of: title, body, and whether the item is a
\* pull request.
Catalogue ==
    { [title |-> <<"Bounty", "30 RTC">>, body |-> <<>>, pull_request |-> FALSE],
      [title |-> <<"Reward", "1.04 RTC">>, body |-> <<>>, pull_request |-> FALSE],
      [title |-> <<"Critical", "30 RTC">>, body |-> <<"docs">>, pull_request |-> FALSE],
      [title |-> <<"Bounty">>, body |-> <<>>, pull_request |-> FALSE],
      [title |-> <<"docs", "$5">>, body |-> <<>>, pull_request |-> FALSE],
      [title |-> <<"2k RTC">>, body |-> <<>>, pull_request |-> TRUE] }

\* The items of a listing are numbered as they come.
Numbered(ks) ==
    [n \in 1..Len(ks) |->
        [number |-> n, title |-> ks[n].title, body |-> ks[n].body,
         pull_request |-> ks[n].pull_request]]

\* The answers to the listing request: a list of items, a JSON value that is
\* not a list, or a failure.
Listings ==
    {Ok([isList |-> TRUE, items |-> Numbered(ks)]) : ks \in SeqsUpTo(Catalogue, MaxIssues)}
        \cup {Ok([isList |-> FALSE, items |-> <<>>])}
        \cup {Raise(e) : e \in FetchErrors}

\* The floors --min-usd is given, in thousandths of a dollar.
Floors == {0, 101, Milli(3), Milli(6)}

NoScan == [done |-> FALSE, top |-> 0, min_usd |-> 0, raised |-> "", leads |-> <<>>]

\* scan runs against the listing the platform answers with.
CallScan ==
    /\ ~scanCall.done
    /\ LET out == Scan(listing, scanCall.top, scanCall.min_usd)
       IN  scanCall' = [scanCall EXCEPT !.done = TRUE, !.raised = out.raised,
                                        !.leads = out.value]
    /\ UNCHANGED <<listing, exceptScan>>

-----------------------------------------------------------------------------
(* The claim-template command *)

\* issue_detail
IssueDetail(resp) == GhGet(resp)

\* build_claim_template: the values the template is filled with.
BuildClaimTemplate(issue, wallet, handle) ==
    [github |-> handle, wallet |-> wallet,
     issue_no |-> issue.number, title |-> issue.title]

\* The answers to the request for one issue.
Details ==
    {Ok(Numbered(<<k>>)[1]) : k \in Catalogue} \cup {Raise(e) : e \in FetchErrors}

NoClaim == [done |-> FALSE, raised |-> "", printed |-> <<>>]

\* main, command claim-template: the template is printed unless issue_detail
\* raises.
MainClaimTemplate ==
    /\ ~claimCall.done
    /\ LET issue == IssueDetail(detail)
       IN  claimCall' =
               IF issue.raised # ""
               THEN [done |-> TRUE, raised |-> issue.raised, printed |-> <<>>]
               ELSE [done |-> TRUE, raised |-> "",
                     printed |-> <<BuildClaimTemplate(issue.value, "wallet", "handle")>>]
    /\ UNCHANGED <<detail, exceptClaim>>

-----------------------------------------------------------------------------
(* Discovering monitor targets from the claimant's comments *)

UrlA == "https://github.com/Scottcjn/rustchain-bounties/pull/127"
UrlB == "https://github.com/Scottcjn/Rustchain/pull/119"

\* What PR_URL_RE finds in one token: (repository, number) pairs.
PrUrlMatches(tok) ==
    CASE tok = UrlA -> << <<"Scottcjn/rustchain-bounties", "127">> >>
      [] tok = UrlB -> << <<"Scottcjn/Rustchain", "119">> >>
      [] OTHER -> <<>>

\* PR_URL_RE.findall(body)
RECURSIVE FindPrUrls(_)
FindPrUrls(text) ==
    IF Len(text) = 0 THEN <<>>
    ELSE PrUrlMatches(Head(text)) \o FindPrUrls(Tail(text))

\* int() of the digits of a pull request number.
IntOf(digits) == CASE digits = "127" -> 127 [] digits = "119" -> 119

\* repository_url.split("/repos/")[-1], "" for a missing repository_url.
RepoOf(url) ==
    CASE url = "https://api.github.com/repos/Scottcjn/rustchain-bounties"
             -> "Scottcjn/rustchain-bounties"
      [] OTHER -> url

\* The default of --handle.
Handle == "David-code-tang"

\* Lines 374-387: the targets one comment names, in the order of the loop;
\* pr is <<>> for None.
CommentTargets(issue_repo, issue_no, c) ==
    LET prs == FindPrUrls(c.body)
    IN  IF Len(prs) = 0
        THEN << [issue_repo |-> issue_repo, issue |-> issue_no,
                 pr_repo |-> issue_repo, pr |-> <<>>] >>
        ELSE [k \in 1..Len(prs) |->
                 [issue_repo |-> issue_repo, issue |-> issue_no,
                  pr_repo |-> prs[k][1], pr |-> <<IntOf(prs[k][2])>>]]

\* Variant: every target is appended, seen or not.
RememberAlways(acc, t) == [out |-> Append(acc.out, t), seen |-> acc.seen \cup {t}]

\* if key in seen: continue; seen.add(key); out.append(...)
Remember(acc, t) ==
    IF t \in acc.seen THEN acc
    ELSE [out |-> Append(acc.out, t), seen |-> acc.seen \cup {t}]

RECURSIVE RememberAll(_, _)
RememberAll(acc, ts) ==
    IF Len(ts) = 0 THEN acc
    ELSE RememberAll(Remember(acc, Head(ts)), Tail(ts))

\* Variant: the author of a comment is not looked at.
RECURSIVE CommentLoopAnyAuthor(_, _, _, _)
CommentLoopAnyAuthor(acc, issue_repo, issue_no, cs) ==
    IF Len(cs) = 0 THEN acc
    ELSE CommentLoopAnyAuthor(RememberAll(acc, CommentTargets(issue_repo, issue_no, Head(cs))),
                              issue_repo, issue_no, Tail(cs))

\* Lines 368-387: the loop over the comments of one issue.
RECURSIVE CommentLoop(_, _, _, _)
CommentLoop(acc, issue_repo, issue_no, cs) ==
    IF Len(cs) = 0 THEN acc
    ELSE LET c == Head(cs)
             next == IF LowerTok(c.login) # LowerTok(Handle) THEN acc
                     ELSE RememberAll(acc, CommentTargets(issue_repo, issue_no, c))
         IN  CommentLoop(next, issue_repo, issue_no, Tail(cs))

\* Lines 360-387: the loop over the items of the search result; the result is
\* what the loop raises, or the targets collected.
RECURSIVE ItemLoop(_, _, _)
ItemLoop(acc, items, replies) ==
    IF Len(items) = 0 THEN Ok(acc.out)
    ELSE LET item == Head(items)
             issue_repo == RepoOf(item.repository_url)
             got == GhGetSafe(replies[item.number], [isList |-> TRUE, items |-> <<>>])
         IN  IF issue_repo = "" \/ item.number = 0
                 THEN ItemLoop(acc, Tail(items), replies)
             ELSE IF got.raised # "" THEN got
             ELSE IF ~got.value.isList THEN ItemLoop(acc, Tail(items), replies)
             ELSE ItemLoop(CommentLoop(acc, issue_repo, item.number, got.value.items),
                           Tail(items), replies)

\* discover_monitor_targets
DiscoverMonitorTargets(found, replies, limit) ==
    LET got == GhGetSafe(found, [isDict |-> TRUE, itemsIsList |-> TRUE, items |-> <<>>])
    IN  IF got.raised # "" THEN got
        ELSE IF ~got.value.isDict \/ ~got.value.itemsIsList THEN Ok(<<>>)
        ELSE ItemLoop([out |-> <<>>, seen |-> {}], Slice(got.value.items, limit), replies)

\* The default of --limit.
DiscoverLimit == 200

\* The issues a search result is made of; the last one lacks its repository.
IssueNumbers == {34, 19}
SearchItems ==
    { [repository_url |-> "https://api.github.com/repos/Scottcjn/rustchain-bounties", number |-> 34],
      [repository_url |-> "https://api.github.com/repos/Scottcjn/rustchain-bounties", number |-> 19],
      [repository_url |-> "", number |-> 19] }

\* The answers to the search request.
Searches ==
    {Ok([isDict |-> TRUE, itemsIsList |-> TRUE, items |-> is]) : is \in SeqsUpTo(SearchItems, MaxItems)}
        \cup {Ok([isDict |-> FALSE, itemsIsList |-> FALSE, items |-> <<>>]),
              Ok([isDict |-> TRUE, itemsIsList |-> FALSE, items |-> <<>>])}
        \cup {Raise(e) : e \in {"HTTPError", "JSONDecodeError"}}

\* The comments an issue carries: by the claimant in either spelling of the
\* login, by someone else, with one link, with a link repeated, with none.
ThreadComments ==
    { [login |-> "David-code-tang", body |-> <<"Submission:", UrlA>>],
      [login |-> "david-code-tang", body |-> <<UrlA, UrlB, UrlA>>],
      [login |-> "David-code-tang", body |-> <<"claiming">>],
      [login |-> "someone-else", body |-> <<UrlB>>] }

\* The answers to the request for the comments of an issue.
ThreadAnswers ==
    {Ok([isList |-> TRUE, items |-> cs]) : cs \in SeqsUpTo(ThreadComments, MaxThread)}
        \cup {Ok([isList |-> FALSE, items |-> <<>>])}
        \cup {Raise(e) : e \in {"HTTPError", "JSONDecodeError"}}

NoDiscover == [done |-> FALSE, raised |-> "", out |-> <<>>]

\* discover_monitor_targets runs against the platform's answers.
CallDiscover ==
    /\ ~discoverCall.done
    /\ LET res == DiscoverMonitorTargets(search, threads, DiscoverLimit)
       IN  discoverCall' = [done |-> TRUE, raised |-> res.raised, out |-> res.value]
    /\ UNCHANGED <<search, threads, exceptDiscover>>

-----------------------------------------------------------------------------
(* Monitoring issue / pull request pairs *)

\* Variant: the pull request is asked for and read whether the target names
\* one or not.
MonitorRowReadsPull(t, a) ==
    LET issue == GhGetSafe(a.issue, [isDict |-> TRUE, state |-> "unknown"])
        issue_comments == GhGetSafe(a.comments, [isList |-> TRUE, items |-> <<>>])
        payout_signal ==
            PayoutSignalFromComments(IF issue_comments.value.isList
                                     THEN issue_comments.value.items ELSE <<>>)
        pr == GhGetSafe(a.pr, [isDict |-> TRUE, merged |-> FALSE, state |-> "unknown"])
        merged == IF pr.value.isDict THEN pr.value.merged ELSE FALSE
        pr_state == IF pr.value.isDict THEN pr.value.state ELSE "unknown"
    IN  IF issue.raised # "" THEN issue
        ELSE IF issue_comments.raised # "" THEN issue_comments
        ELSE IF pr.raised # "" THEN pr
        ELSE IF ~issue.value.isDict THEN Raise("AttributeError")
        ELSE Ok([label |-> <<t.issue_repo, t.issue>>,
                 issue |-> <<t.issue_repo, t.issue>>,
                 pr |-> IF Len(t.pr) = 0 THEN <<>> ELSE <<t.pr_repo, t.pr[1]>>,
                 issue_state |-> issue.value.state,
                 pr_state |-> pr_state,
                 merged |-> merged,
                 payout_signal |-> payout_signal,
                 payout_action |-> ClassifyPayoutAction(merged, pr_state,
                                       issue.value.state, payout_signal)])

\* Lines 289-321: the row of one target, given the answers to its three
\* requests; the result is what the body of the loop raises, or the row.
\* A target has no label of its own, and pr is <<>> for None.
MonitorRow(t, a) ==
    LET issue == GhGetSafe(a.issue, [isDict |-> TRUE, state |-> "unknown"])
        issue_comments == GhGetSafe(a.comments, [isList |-> TRUE, items |-> <<>>])
        payout_signal ==
            PayoutSignalFromComments(IF issue_comments.value.isList
                                     THEN issue_comments.value.items ELSE <<>>)
        pr == GhGetSafe(a.pr, [isDict |-> TRUE, merged |-> FALSE, state |-> "unknown"])
        merged == IF Len(t.pr) = 0 THEN FALSE
                  ELSE IF pr.value.isDict THEN pr.value.merged ELSE FALSE
        pr_state == IF Len(t.pr) = 0 THEN "missing"
                    ELSE IF pr.value.isDict THEN pr.value.state ELSE "unknown"
    IN  IF issue.raised # "" THEN issue
        ELSE IF issue_comments.raised # "" THEN issue_comments
        ELSE IF Len(t.pr) > 0 /\ pr.raised # "" THEN pr
        ELSE IF ~issue.value.isDict THEN Raise("AttributeError")
        ELSE Ok([label |-> <<t.issue_repo, t.issue>>,
                 issue |-> <<t.issue_repo, t.issue>>,
                 pr |-> IF Len(t.pr) = 0 THEN <<>> ELSE <<t.pr_repo, t.pr[1]>>,
                 issue_state |-> issue.value.state,
                 pr_state |-> pr_state,
                 merged |-> merged,
                 payout_signal |-> payout_signal,
                 payout_action |-> ClassifyPayoutAction(merged, pr_state,
                                       issue.value.state, payout_signal)])

\* monitor_targets: the rows of the targets in order, unless a row raises.
RECURSIVE MonitorTargets(_, _)
MonitorTargets(ts, as) ==
    IF Len(ts) = 0 THEN Ok(<<>>)
    ELSE LET row == MonitorRow(Head(ts), Head(as))
             rest == MonitorTargets(Tail(ts), Tail(as))
         IN  IF row.raised # "" THEN row
             ELSE IF rest.raised # "" THEN rest
             ELSE Ok(<<row.value>> \o rest.value)

\* The requests the body of the loop issues for one target, in order: each
\* is the kind of path with the repository and the number asked for.
RowRequests(t, a) ==
    LET issue == GhGetSafe(a.issue, [isDict |-> TRUE, state |-> "unknown"])
        issue_comments == GhGetSafe(a.comments, [isList |-> TRUE, items |-> <<>>])
    IN  << <<"issues", t.issue_repo, t.issue>> >>
        \o (IF issue.raised # "" THEN <<>>
            ELSE << <<"comments", t.issue_repo, t.issue>> >>
                 \o (IF issue_comments.raised # "" \/ Len(t.pr) = 0 THEN <<>>
                     ELSE << <<"pulls", t.pr_repo, t.pr[1]>> >>))

\* The requests of a run of monitor_targets.
RECURSIVE MonitorRequests(_, _)
MonitorRequests(ts, as) ==
    IF Len(ts) = 0 THEN <<>>
    ELSE RowRequests(Head(ts), Head(as))
         \o (IF MonitorRow(Head(ts), Head(as)).raised # "" THEN <<>>
             ELSE MonitorRequests(Tail(ts), Tail(as)))

\* The targets of a run: an issue with a pull request, and one without.
MonitorTargetSet ==
    { [issue_repo |-> "Scottcjn/rustchain-bounties", issue |-> 34,
       pr_repo |-> "Scottcjn/rustchain-bounties", pr |-> <<127>>],
      [issue_repo |-> "Scottcjn/rustchain-bounties", issue |-> 19,
       pr_repo |-> "Scottcjn/rustchain-bounties", pr |-> <<>>] }

\* The answers to the three requests of a target: the value asked for, or a
\* failure.
IssueAnswers ==
    {Ok([isDict |-> TRUE, state |-> "open"]), Raise("HTTPError"), Raise("JSONDecodeError")}
CommentAnswers ==
    {Ok([isList |-> TRUE, items |-> << [body |-> <<"payout", "sent">>] >>]),
     Raise("URLError"), Raise("RemoteDisconnected")}
PrAnswers ==
    {Ok([isDict |-> TRUE, merged |-> TRUE, state |-> "closed"]),
     Raise("TimeoutError"), Raise("JSONDecodeError")}
TargetAnswers == [issue : IssueAnswers, comments : CommentAnswers, pr : PrAnswers]

\* The answers to the three requests of a target when no request fails: the
\* value asked for, or a JSON value of another shape.
ShapedAnswers ==
    [issue : {Ok([isDict |-> TRUE, state |-> "open"]), Ok([isDict |-> FALSE, state |-> ""])},
     comments : {Ok([isList |-> TRUE, items |-> << [body |-> <<"payout", "sent">>] >>]),
                 Ok([isList |-> FALSE, items |-> <<>>])},
     pr : {Ok([isDict |-> TRUE, merged |-> TRUE, state |-> "closed"]),
           Ok([isDict |-> FALSE, merged |-> FALSE, state |-> ""])}]

NoMonitor == [done |-> FALSE, raised |-> "", rows |-> <<>>, requests |-> <<>>]

\* monitor_targets runs over the targets against the platform's answers.
CallMonitor ==
    /\ ~monitorCall.done
    /\ LET res == MonitorTargets(targets, answers)
       IN  monitorCall' = [done |-> TRUE, raised |-> res.raised, rows |-> res.value,
                           requests |-> MonitorRequests(targets, answers)]
    /\ UNCHANGED <<targets, answers, exceptMonitor>>

\* The answers of a platform all of whose requests succeed, before anybody
\* has commented.
WatchAnswers ==
    [issue : {Ok([isDict |-> TRUE, state |-> "open"]), Ok([isDict |-> TRUE, state |-> "closed"])},
     comments : {Ok([isList |-> TRUE, items |-> <<>>])},
     pr : {Ok([isDict |-> TRUE, merged |-> TRUE, state |-> "closed"]),
           Ok([isDict |-> TRUE, merged |-> FALSE, state |-> "open"])}]

\* A monitor run on the tracked issue: the request for the comments is
\* answered with the comments the issue carries by now.
WatchRun ==
    /\ answers' = [k \in 1..Len(answers) |->
                      [answers[k] EXCEPT !.comments = Ok([isList |-> TRUE, items |-> comments])]]
    /\ LET res == MonitorTargets(targets, answers')
       IN  monitorCall' = [done |-> TRUE, raised |-> res.raised, rows |-> res.value,
                           requests |-> MonitorRequests(targets, answers')]
    /\ UNCHANGED <<targets, exceptMonitor>>

-----------------------------------------------------------------------------
(* The in-memory beacon bridge of integrations/energypantry-beacon *)

\* The agent of the integration test, line 11-15 of test_beacon_integration.py.
AgentId == "bcn_energypantry_test"
Role == "operator"

\* int(time.time()) at a call, in seconds since the bridge was made: the
\* second of the last event, or a later one.
Ticks(log) ==
    LET now == IF Len(log) = 0 THEN 0 ELSE log[Len(log)].ts
    IN  {now, now + 1}

\* Variant: the new event is put in front of the log.
NewEventInFront(log, kind, agent_id, ts, payload) ==
    LET event == [kind |-> kind, agent_id |-> agent_id, ts |-> ts, payload |-> payload]
    IN  [log |-> <<event>> \o log, event |-> event]

\* Lines 57-60: _new_event makes the event, appends it to _events and
\* returns it; log is _events before the call.
NewEvent(log, kind, agent_id, ts, payload) ==
    LET event == [kind |-> kind, agent_id |-> agent_id, ts |-> ts, payload |-> payload]
    IN  [log |-> Append(log, event), event |-> event]

\* dict.get(key, default)
DictGet(d, key, default) == IF key \in DOMAIN d THEN d[key] ELSE default

\* Lines 62-70
Ping(log, agent_id, role, ts) ==
    NewEvent(log, "heartbeat", agent_id, ts, [status |-> "alive", role |-> role])

\* Lines 72-81
Mayday(log, agent_id, reason, details, ts) ==
    NewEvent(log, "mayday", agent_id, ts,
             [reason |-> reason, details |-> details,
              urgency |-> DictGet(details, "urgency", "medium")])

\* Lines 83-100
ContractOffer(log, agent_id, resource, amount_rtc, term, counterparty, ts) ==
    NewEvent(log, "contract_offer", agent_id, ts,
             [resource |-> resource, amount_rtc |-> amount_rtc, term |-> term,
              counterparty |-> counterparty])

\* Lines 170-171
SendHeartbeat(log, ts) == Ping(log, AgentId, Role, ts)

\* Lines 173-178
SendMayday(log, reason, urgency, ts) ==
    Mayday(log, AgentId, reason,
           [urgency |-> urgency, source |-> "energypantry-agent"], ts)

\* Lines 180-193
CreateContractOffer(log, resource, amount_rtc, term, counterparty, ts) ==
    ContractOffer(log, AgentId, resource, amount_rtc, term, counterparty, ts)

\* Lines 195-206: the three calls of run_demo, made at the seconds t1, t2, t3;
\* events is the list returned.
RunDemo(log, t1, t2, t3) ==
    LET a == SendHeartbeat(log, t1)
        b == SendMayday(a.log, "Need extra GPU workers", "medium", t2)
        c == CreateContractOffer(b.log, "gpu_hours", 40, "7d", "bcn_superplane_bridge", t3)
    IN  [log |-> c.log, events |-> <<a.event, b.event, c.event>>]

\* The details handed to mayday: those the agent builds, and a dict without
\* an urgency.
MaydayDetails ==
    {[urgency |-> "critical", source |-> "energypantry-agent"],
     [source |-> "energypantry-agent"]}

NoBeacon == [op |-> "", returned |-> <<>>]

\* A call of ping on the bridge.
CallPing ==
    /\ Len(events) < MaxEvents
    /\ \E ts \in Ticks(events) :
           LET r == Ping(events, AgentId, Role, ts)
           IN  /\ events' = r.log
               /\ beaconCall' = [op |-> "ping", returned |-> <<r.event>>]
    /\ UNCHANGED exceptBeacon

\* A call of mayday on the bridge.
CallMayday ==
    /\ Len(events) < MaxEvents
    /\ \E ts \in Ticks(events), details \in MaydayDetails :
           LET r == Mayday(events, AgentId, "relay timeout", details, ts)
           IN  /\ events' = r.log
               /\ beaconCall' = [op |-> "mayday", returned |-> <<r.event>>]
    /\ UNCHANGED exceptBeacon

\* A call of contract_offer on the bridge.
CallContractOffer ==
    /\ Len(events) < MaxEvents
    /\ \E ts \in Ticks(events) :
           LET r == ContractOffer(events, AgentId, "indexing_capacity", 25, "30d",
                                  "bcn_partner", ts)
           IN  /\ events' = r.log
               /\ beaconCall' = [op |-> "contract_offer", returned |-> <<r.event>>]
    /\ UNCHANGED exceptBeacon

\* A call of run_demo on the agent that owns the bridge.
CallRunDemo ==
    /\ Len(events) + 3 <= MaxEvents
    /\ \E t1 \in Ticks(events) :
         \E t2 \in {t1, t1 + 1} :
           \E t3 \in {t2, t2 + 1} :
             LET r == RunDemo(events, t1, t2, t3)
             IN  /\ events' = r.log
                 /\ beaconCall' = [op |-> "run_demo", returned |-> r.events]
    /\ UNCHANGED exceptBeacon

-----------------------------------------------------------------------------
(* Claims about the payout signal and the payout action *)

HasPaidCue(cs) == AnyIn(PaidCues, CommentText(cs))
HasQueuedCue(cs) == AnyIn(QueuedCues, CommentText(cs))
HasNeedsUpdateCue(cs) == AnyIn(NeedsUpdateCues, CommentText(cs))

\* C1: the signal follows the priority paid > queued > needs_update > none: it is
\* "paid" whenever a paid cue occurs in the comments, "queued" only without a paid
\* cue, "needs_update" only without paid and queued cues, "none" otherwise.
C1_PaidBeforeQueued ==
    sigCall.ret # "unset" =>
        LET cs == sigCall.arg
        IN  /\ HasPaidCue(cs) => sigCall.ret = "paid"
            /\ ~HasPaidCue(cs) /\ HasQueuedCue(cs) => sigCall.ret = "queued"
            /\ ~HasPaidCue(cs) /\ ~HasQueuedCue(cs) /\ HasNeedsUpdateCue(cs)
                   => sigCall.ret = "needs_update"
            /\ ~HasPaidCue(cs) /\ ~HasQueuedCue(cs) /\ ~HasNeedsUpdateCue(cs)
                   => sigCall.ret = "none"

Actions == {"complete", "wait_payout_queue", "address_review", "request_payout",
            "check_followup", "verify_closure", "wait_for_review"}

\* The action the decision table of C2 gives a call, rule by rule.
TableAction(c) ==
    CASE c.payout_signal = "paid" -> "complete"
      [] c.payout_signal = "queued" -> "wait_payout_queue"
      [] c.payout_signal = "needs_update" -> "address_review"
      [] c.payout_signal = "none" /\ c.merged -> "request_payout"
      [] c.payout_signal = "none" /\ ~c.merged /\ c.pr_state = "closed"
             -> "check_followup"
      [] c.payout_signal = "none" /\ ~c.merged /\ c.pr_state # "closed"
             /\ c.issue_state = "closed" -> "verify_closure"
      [] c.payout_signal = "none" /\ ~c.merged /\ c.pr_state # "closed"
             /\ c.issue_state # "closed" -> "wait_for_review"

\* C2: classify_payout_action is a total first-match decision table: every call
\* returns the action of the first rule that matches its arguments.
C2_FirstMatchTable ==
    \A c \in {actCall, prevCall} :
        c.ret # "unset" => c.ret \in Actions /\ c.ret = TableAction(c)

\* A call on which only a late rule of the table matches has been made.
C2_Witness ==
    /\ actCall.ret = "verify_closure"
    /\ prevCall.ret = "request_payout"

\* C3: two calls that agree on a signal among paid, queued, needs_update return
\* the same action, whatever merged, pr_state and issue_state are.
C3_SignalPreempts ==
    (/\ actCall.ret # "unset"
     /\ prevCall.ret # "unset"
     /\ actCall.payout_signal = prevCall.payout_signal
     /\ actCall.payout_signal \in {"paid", "queued", "needs_update"})
        => actCall.ret = prevCall.ret

\* Two calls with the same signal "queued" that differ in all three other arguments.
C3_Witness ==
    /\ actCall.ret # "unset"
    /\ prevCall.ret # "unset"
    /\ actCall.payout_signal = "queued"
    /\ prevCall.payout_signal = "queued"
    /\ actCall.merged # prevCall.merged
    /\ actCall.pr_state = "closed" /\ prevCall.pr_state = "open"
    /\ actCall.issue_state # prevCall.issue_state

\* The comments cs in the order p.
Permuted(cs, p) == [i \in 1..Len(cs) |-> cs[p[i]]]
OrdersOf(n) == {p \in [1..n -> 1..n] : \A i, j \in 1..n : p[i] = p[j] => i = j}

\* A cue of the set occurs inside one of the comments.
CueInOne(cues, cs) == \E i \in 1..Len(cs) : AnyIn(cues, Lower(cs[i].body))

\* C25: the signal is the same for every order of the comments, and it is
\* decided by the cues that occur inside single comments: no cue is matched
\* across the line break between two comments.
C25_SignalIgnoresOrder ==
    sigCall.ret # "unset" =>
        /\ \A p \in OrdersOf(Len(sigCall.arg)) :
              PayoutSignalFromComments(Permuted(sigCall.arg, p)) = sigCall.ret
        /\ sigCall.ret = "queued" <=> CueInOne(QueuedCues, sigCall.arg)
        /\ sigCall.ret = "paid" <=>
               ~CueInOne(QueuedCues, sigCall.arg) /\ CueInOne(PaidCues, sigCall.arg)
        /\ sigCall.ret = "needs_update" <=>
               /\ ~CueInOne(QueuedCues, sigCall.arg)
               /\ ~CueInOne(PaidCues, sigCall.arg)
               /\ CueInOne(NeedsUpdateCues, sigCall.arg)

\* One comment ends in "payout" and the next one is "sent": no signal.
C25_Witness ==
    /\ Len(sigCall.arg) = 2
    /\ sigCall.arg[1].body = <<"payout">>
    /\ sigCall.arg[2].body = <<"sent">>
    /\ sigCall.ret = "none"

-----------------------------------------------------------------------------
(* Claims about posting a comment *)

LiveFlags == post.called /\ ~post.dry_run /\ post.confirm

\* C4 as stated: a call that lacks any one of the three conditions (non-dry-run
\* flag, confirmation, token) returns the dry-run preview and writes nothing.
C4_AnyMissingGateIsDryRun ==
    (post.called /\ (post.dry_run \/ ~post.confirm \/ post.token = "")) =>
        /\ post.out.mode = "dry-run"
        /\ post.out.posted = FALSE
        /\ post.out.written = 0

\* C4 as amended: a call with dry_run set or confirm unset returns the dry-run
\* preview (mode "dry-run", posted false, the first 280 characters of the body)
\* and writes nothing; a call with dry_run unset, confirm set and an empty token
\* raises ValueError, sends no request and writes nothing.
C4_FlagsFallBackTokenRaises ==
    /\ (post.called /\ (post.dry_run \/ ~post.confirm)) =>
           /\ post.out.mode = "dry-run"
           /\ post.out.posted = FALSE
           /\ post.out.raised = ""
           /\ post.out.preview = Min(post.bodyLen, PreviewLimit)
           /\ post.out.http = 0
           /\ post.out.written = 0
    /\ (LiveFlags /\ post.token = "") =>
           /\ post.out.mode = "raised"
           /\ post.out.raised = "ValueError"
           /\ post.out.posted = FALSE
           /\ post.out.http = 0
           /\ post.out.written = 0

\* A live call without a token has been made.
C4_Witness == LiveFlags /\ post.token = "" /\ post.bodyLen > PreviewLimit

\* C5: a step issues an HTTP POST or creates a comment only when the command has
\* dry_run unset, confirm set and a non-empty token; a live call with an empty
\* token is rejected with no request sent.
C5_PostOnlyThroughAllGates ==
    /\ [][(httpPosts' # httpPosts \/ written' # written) =>
              (~post'.dry_run /\ post'.confirm /\ post'.token # "")]_vars
    /\ [](LiveFlags /\ post.token = "" =>
              post.out.raised = "ValueError" /\ post.out.http = 0)
    /\ [](written <= httpPosts)

\* A comment has been created by a live call, after a rejected one.
C5_Witness ==
    /\ LiveFlags /\ post.token # ""
    /\ post.out.mode = "live" /\ post.out.written = 1
    /\ httpPosts = 2 /\ written = 1

-----------------------------------------------------------------------------
(* Claims about the reward extractor *)

SetMax(S) == IF S = {} THEN 0 ELSE CHOOSE v \in S : \A w \in S : v >= w

\* The RTC and dollar amounts that occur in a text, as sets.
RtcIn(text) == {ExtractAmounts(text)[i] : i \in 1..Len(ExtractAmounts(text))}
UsdIn(text) == {ExtractUsdAmounts(text)[i] : i \in 1..Len(ExtractUsdAmounts(text))}

Lines == SplitLines(FullText(body, title))
CueLines == {i \in 1..Len(Lines) : HasLineCue(Lines[i]) /\ ~HasPool(Lines[i])}
PoolLines == {i \in 1..Len(Lines) : HasPool(Lines[i])}

NoCueIn(text) == \A i \in 1..Len(text) : LowerTok(text[i]) \notin LineCues

\* The title tier yields nothing: no non-zero dollar amount in the title, and no
\* non-zero RTC amount unless the title mentions a pool.
TitleYieldsNothing ==
    /\ \A v \in UsdIn(title) : v = 0
    /\ HasPool(title) \/ \A v \in RtcIn(title) : v = 0

\* C6: for a title that contains "pool" and a body without any cue word the
\* result is (0, 0), also when the title carries a dollar or RTC amount.
C6_PoolTitleGivesZero ==
    (reward.done /\ HasPool(title) /\ NoCueIn(body)) =>
        reward.rtc = 0 /\ reward.usd = 0

\* C7: the result is (0, 0) or has both sides positive; a side that was not found
\* is derived from the other one at 0.10 dollars per RTC, and when both were found
\* neither is changed.
C7_CrossFill ==
    reward.done =>
        LET r == reward.found[1]
            u == reward.found[2]
        IN  /\ (reward.rtc = 0 /\ reward.usd = 0) \/ (reward.rtc > 0 /\ reward.usd > 0)
            /\ (r = 0 /\ u = 0) => reward.rtc = 0 /\ reward.usd = 0
            /\ (r > 0 /\ u = 0) => reward.rtc = r /\ reward.usd * RtcPerUsd = r
            /\ (r = 0 /\ u > 0) => reward.usd = u /\ reward.rtc = u * RtcPerUsd
            /\ (r > 0 /\ u > 0) => reward.rtc = r /\ reward.usd = u

\* Only a dollar amount was found, in the body, and the RTC side was derived.
C7_Witness ==
    /\ reward.done
    /\ reward.found = <<0, Milli(5)>>
    /\ reward.rtc = Milli(50)
    /\ UsdIn(title) = {}

CueLineMax ==
    << SetMax(UNION {RtcIn(Lines[i]) : i \in CueLines}),
       SetMax(UNION {UsdIn(Lines[i]) : i \in CueLines}) >>

C10_NoCueGivesZero ==
    (reward.done /\ NoCueIn(title) /\ NoCueIn(body)) =>
        reward.rtc = 0 /\ reward.usd = 0

\* C10 as amended: when no cue word occurs in the title or the body, the result
\* is (0, 0) exactly when the title tier yields nothing and the text either
\* mentions a pool or holds no non-zero amount; otherwise the amounts are
\* picked up, by the title tier or by the last-resort parse.
C10_NoCueZeroOnlyWithPoolOrNoAmount ==
    (reward.done /\ NoCueIn(title) /\ NoCueIn(body)) =>
        LET text == FullText(body, title)
        IN  (reward.rtc = 0 /\ reward.usd = 0) <=>
                /\ TitleYieldsNothing
                /\ \/ HasPool(text)
                   \/ \A v \in RtcIn(text) \cup UsdIn(text) : v = 0

\* A cue-free body with an amount under a cue-free title without amounts.
C10_Witness ==
    /\ reward.done
    /\ NoCueIn(title) /\ NoCueIn(body)
    /\ RtcIn(title) = {} /\ UsdIn(title) = {}
    /\ ~HasPool(FullText(body, title))
    /\ RtcIn(body) = {Milli(30)}
    /\ reward.rtc = Milli(30) /\ reward.usd = Milli(3)

-----------------------------------------------------------------------------
(* Claims about the difficulty estimator *)

HardMatched == {k \in HardTerms : Occurs(k, TriageText(title, body))}
MidMatched == {k \in MidTerms : Occurs(k, TriageText(title, body))}

\* C11: estimate_difficulty returns "high" whenever a high keyword occurs in the
\* lowercased title and body (also next to medium keywords), "medium" exactly
\* when no high and some medium keyword occurs, "low" exactly when neither
\* occurs; the result is always one of the three tiers.
C11_FirstMatchingTier ==
    difficulty.done =>
        /\ difficulty.ret \in {"low", "medium", "high"}
        /\ HardMatched # {} => difficulty.ret = "high"
        /\ difficulty.ret = "medium" <=> (HardMatched = {} /\ MidMatched # {})
        /\ difficulty.ret = "low" <=> (HardMatched = {} /\ MidMatched = {})

\* A medium keyword in the title and a high keyword in the body: the result is high.
C11_Witness ==
    /\ difficulty.done
    /\ title = <<"tooling">>
    /\ "critical" \in HardMatched /\ "tool" \in MidMatched
    /\ difficulty.ret = "high"

-----------------------------------------------------------------------------
(* Claims about the capability-fit scorer *)

PlusMatchedIn(t, b) == PlusTerms \cap TermsOf(TriageText(t, b))
MinusMatchedIn(t, b) == MinusTerms \cap TermsOf(TriageText(t, b))

\* C12: capability_fit returns a value in [0, 1], whatever plus and minus
\* keywords the title and the body match.
C12_FitInUnitInterval ==
    fit.done => 0 <= fit.ret /\ fit.ret <= FitMax

\* Ten plus keywords and no minus keyword match: 0.5 + 10 * 0.06 is cut to 1.0.
C12_Witness ==
    /\ fit.done
    /\ Cardinality(PlusMatchedIn(title, body)) = 10
    /\ MinusMatchedIn(title, body) = {}
    /\ fit.ret = FitMax

\* The text with the tokens at places i and j exchanged, split like title and body.
Swapped(i, j) ==
    LET all == title \o body
        sw == [k \in 1..Len(all) |-> IF k = i THEN all[j] ELSE IF k = j THEN all[i]
                                     ELSE all[k]]
    IN  [t |-> SubSeq(sw, 1, Len(title)), b |-> SubSeq(sw, Len(title) + 1, Len(sw))]

\* C20: every matching keyword counts, so the score is 0.5 + 0.06 * plus matches
\* - 0.08 * minus matches cut to [0, 1]; it is the same for the tokens in another
\* order or split otherwise between title and body; a further fragment that adds
\* no minus match never lowers it and one that adds no plus match never raises it.
C20_OrderIndependentMonotonic ==
    fit.done =>
        LET all == title \o body
            P == PlusMatchedIn(title, body)
            M == MinusMatchedIn(title, body)
            raw == FitStart + PlusStep * Cardinality(P) - MinusStep * Cardinality(M)
        IN  /\ fit.ret = (IF raw > FitMax THEN FitMax ELSE IF raw < 0 THEN 0 ELSE raw)
            /\ \A i \in 1..Len(all) : \A j \in (i + 1)..Len(all) :
                   LET sw == Swapped(i, j)
                   IN  CapabilityFit(sw.t, sw.b) = fit.ret
            /\ \A k \in 0..Len(all) :
                   CapabilityFit(SubSeq(all, 1, k), SubSeq(all, k + 1, Len(all))) = fit.ret
            /\ \A f \in FitToks :
                   LET b2 == Append(body, f)
                   IN  /\ MinusMatchedIn(title, b2) = M
                           => CapabilityFit(title, b2) >= fit.ret
                       /\ PlusMatchedIn(title, b2) = P
                           => CapabilityFit(title, b2) <= fit.ret

\* Three plus keywords after a minus keyword: 0.5 - 0.08 + 3 * 0.06.
C20_Witness ==
    /\ fit.done
    /\ title = <<"dos">>
    /\ body = <<"docs readme", "Python">>
    /\ fit.ret = 60

-----------------------------------------------------------------------------
(* Claims about the rank score *)

\* reward_usd / 25 + fit * 3 - penalty, in twenty-fifths of a thousandth.
ExactFormula(usd, d, f) == usd + 25 * (30 * f - DiffPenalty(d))

\* The score does not fall when the reward or the fit rises, and for the same
\* reward and fit it is strictly ordered low > medium > high.
RankMonotonic ==
    /\ \A u \in RankUsd :
          u >= rank.usd => RankScore(u, rank.diff, rank.fit) >= rank.ret
    /\ \A f \in FitValues :
          f >= rank.fit => RankScore(rank.usd, rank.diff, f) >= rank.ret
    /\ RankScore(rank.usd, "low", rank.fit) > RankScore(rank.usd, "medium", rank.fit)
    /\ RankScore(rank.usd, "medium", rank.fit) > RankScore(rank.usd, "high", rank.fit)

\* C13 as stated: rank_score equals reward / 25 + fit * 3 - penalty exactly,
\* and is monotonic in reward and fit and strictly ordered by difficulty.
\* Violated: the code rounds to three decimals, e.g. for a reward of 0.01.
C13_ExactlyTheFormula ==
    rank.done =>
        /\ 25 * rank.ret = ExactFormula(rank.usd, rank.diff, rank.fit)
        /\ RankMonotonic

\* C13 amended: rank_score is reward / 25 + fit * 3 - penalty rounded to the
\* nearest thousandth; it is non-decreasing in the reward and in the fit, and
\* for the same reward and fit strictly ordered low > medium > high.
C13_RoundedFormulaMonotonic ==
    rank.done =>
        /\ 25 * rank.ret - ExactFormula(rank.usd, rank.diff, rank.fit) \in -12..12
        /\ RankMonotonic

\* A score was computed for a reward that is not a multiple of 0.025.
C13_Witness ==
    /\ rank.done
    /\ rank.usd = 13
    /\ rank.diff = "medium"
    /\ rank.fit = 56
    /\ rank.ret = 1 + 1680 - 800

-----------------------------------------------------------------------------
(* Claims about scanning and ranking *)

\* The issues scan works on, and the positions of those that reach the floor.
Fetched == FetchOpenBounties(listing).value
FiatReward(i) == ParseReward(i.body, i.title)[2]
Qualifying == {n \in 1..Len(Fetched) : FiatReward(Fetched[n]) >= scanCall.min_usd}

Returned == {scanCall.leads[k].number : k \in 1..Len(scanCall.leads)}
ScanReturned == scanCall.done /\ scanCall.raised = "" /\ scanCall.top >= 0

\* The leads are in non-increasing order of score.
SortedByScore ==
    \A k \in 1..(Len(scanCall.leads) - 1) :
        scanCall.leads[k].score >= scanCall.leads[k + 1].score

\* As many leads as top allows and the floor lets through.
LengthIsMin == Len(scanCall.leads) = Min(scanCall.top, Cardinality(Qualifying))

\* No qualifying issue that was left out scores more than a returned one.
HighestScoring ==
    \A n \in Qualifying :
        Fetched[n].number \notin Returned =>
            \A k \in 1..Len(scanCall.leads) :
                MakeLead(Fetched[n]).score <= scanCall.leads[k].score

\* C14 as stated: the list scan returns holds only leads whose fiat reward is
\* at least min_usd, is sorted by score in non-increasing order, has length
\* min(top, number of issues passing the floor), and holds the highest-scoring
\* qualifying issues. Violated: the lead's fiat reward is rounded to cents
\* and can be below a floor the issue's reward reached.
C14_ScanOutputShape ==
    ScanReturned =>
        /\ \A k \in 1..Len(scanCall.leads) :
              scanCall.leads[k].reward_usd >= scanCall.min_usd
        /\ SortedByScore
        /\ LengthIsMin
        /\ HighestScoring

\* C14 as amended: every returned lead is the lead of a fetched issue whose
\* parsed fiat reward is at least min_usd, its reward_usd field being that
\* reward rounded to cents; the list is sorted by score in non-increasing
\* order, has length min(top, number of issues passing the floor), and holds
\* the highest-scoring qualifying issues.
C14_ScanOutputShapeUnrounded ==
    ScanReturned =>
        /\ \A k \in 1..Len(scanCall.leads) :
              \E n \in Qualifying :
                  /\ scanCall.leads[k].number = Fetched[n].number
                  /\ scanCall.leads[k].reward_usd - FiatReward(Fetched[n]) \in -5..5
                  /\ scanCall.leads[k].reward_usd % 10 = 0
        /\ SortedByScore
        /\ LengthIsMin
        /\ HighestScoring

\* Three issues reach a floor of 0.101, the two that score most are returned,
\* and one of them is listed with a fiat reward of 0.10.
C14_Witness ==
    /\ ScanReturned
    /\ scanCall.min_usd = 101
    /\ scanCall.top = 2
    /\ Cardinality(Qualifying) = 3
    /\ Len(scanCall.leads) = 2
    /\ scanCall.leads[1].score > scanCall.leads[2].score
    /\ scanCall.leads[2].reward_usd = 100

\* Where the lead of issue number n stands in the returned list.
LeadPos(n) == CHOOSE k \in 1..Len(scanCall.leads) : scanCall.leads[k].number = n

\* C21: ties keep the order of the fetch: of two qualifying issues with the
\* same score, the one fetched later is returned only behind the one fetched
\* earlier.
C21_TiesKeepFetchOrder ==
    (scanCall.done /\ scanCall.raised = "") =>
        \A n, m \in Qualifying :
            (/\ n < m
             /\ MakeLead(Fetched[n]).score = MakeLead(Fetched[m]).score
             /\ Fetched[m].number \in Returned) =>
                /\ Fetched[n].number \in Returned
                /\ LeadPos(Fetched[n].number) < LeadPos(Fetched[m].number)

\* Two issues with the same score were returned behind an issue that was
\* fetched after them and scores more.
C21_Witness ==
    /\ ScanReturned
    /\ Len(scanCall.leads) = 3
    /\ scanCall.leads[1].number = 3
    /\ scanCall.leads[2].number = 1
    /\ scanCall.leads[3].number = 2
    /\ scanCall.leads[1].score > scanCall.leads[2].score
    /\ scanCall.leads[2].score = scanCall.leads[3].score

\* The numbers of the items of the listing that are pull requests, and of
\* those that are not.
PullNumbers ==
    {listing.value.items[n].number :
        n \in {n \in 1..Len(listing.value.items) : listing.value.items[n].pull_request}}
IssueNumbersListed ==
    {listing.value.items[n].number :
        n \in {n \in 1..Len(listing.value.items) : ~listing.value.items[n].pull_request}}

\* C22: no lead scan returns is a pull request of the listing, and every
\* item of the listing that is not a pull request is considered: with a floor
\* of 0 and a top that holds them all, each of them is returned.
C22_PullRequestsNeverRanked ==
    (scanCall.done /\ scanCall.raised = "" /\ listing.value.isList) =>
        /\ Returned \cap PullNumbers = {}
        /\ (scanCall.min_usd = 0 /\ scanCall.top >= Len(listing.value.items)) =>
               Returned = IssueNumbersListed

\* A pull request that would have scored most stands between two issues in
\* the listing, and the two issues are the leads.
C22_Witness ==
    /\ ScanReturned
    /\ Len(listing.value.items) = 3
    /\ listing.value.items[2].pull_request
    /\ listing.value.items[2].title = <<"2k RTC">>
    /\ scanCall.min_usd = 0
    /\ scanCall.top = 3
    /\ Returned = {1, 3}

-----------------------------------------------------------------------------
(* Claims about the primary read paths *)

\* C17: when the request for the issue listing fails, scan raises and returns
\* no list of leads; when the request for the single issue fails, issue_detail
\* raises and no claim template is produced.
C17_PrimaryReadsPropagate ==
    /\ (scanCall.done /\ listing.raised # "") =>
           scanCall.raised = listing.raised /\ scanCall.leads = <<>>
    /\ (claimCall.done /\ detail.raised # "") =>
           claimCall.raised = detail.raised /\ claimCall.printed = <<>>

\* Both commands ran into a failed request of a kind the monitoring path
\* would have absorbed.
C17_Witness ==
    /\ scanCall.done /\ listing.raised = "HTTPError" /\ scanCall.raised = "HTTPError"
    /\ claimCall.done /\ detail.raised = "URLError" /\ claimCall.raised = "URLError"

-----------------------------------------------------------------------------
(* Claims about the discovery of monitor targets *)

\* C18: in the list discover_monitor_targets returns no two entries share the
\* same (issue_repo, issue, pr_repo, pr).
C18_NoDuplicateTargets ==
    (discoverCall.done /\ discoverCall.raised = "") =>
        \A i, j \in 1..Len(discoverCall.out) :
            i # j =>
                <<discoverCall.out[i].issue_repo, discoverCall.out[i].issue,
                  discoverCall.out[i].pr_repo, discoverCall.out[i].pr>>
              # <<discoverCall.out[j].issue_repo, discoverCall.out[j].issue,
                  discoverCall.out[j].pr_repo, discoverCall.out[j].pr>>

\* The same issue came up twice in the search, the handle commented on it
\* twice, one comment repeats a link of the other and in itself, and two
\* targets came out.
C18_Witness ==
    /\ discoverCall.done /\ discoverCall.raised = ""
    /\ Len(search.value.items) = 2
    /\ search.value.items[1] = search.value.items[2]
    /\ search.value.items[1].number = 34
    /\ threads[34].raised = ""
    /\ Len(threads[34].value.items) = 2
    /\ threads[34].value.items[1].body = <<"Submission:", UrlA>>
    /\ threads[34].value.items[2].body = <<UrlA, UrlB, UrlA>>
    /\ Len(discoverCall.out) = 2
    /\ discoverCall.out[1].pr = <<127>>
    /\ discoverCall.out[2].pr = <<119>>

\* The items of the search result whose comments the discovery reads.
ReadItems ==
    {i \in 1..(IF search.raised = "" THEN Len(search.value.items) ELSE 0) :
        /\ search.value.isDict /\ search.value.itemsIsList
        /\ RepoOf(search.value.items[i].repository_url) # ""
        /\ threads[search.value.items[i].number].raised = ""
        /\ threads[search.value.items[i].number].value.isList}

\* The comments of issue n the handle wrote, in either spelling of the login.
HandleComments(n) ==
    {c \in {threads[n].value.items[k] : k \in 1..Len(threads[n].value.items)} :
        LowerTok(c.login) = "david-code-tang"}

\* The pull requests a comment links to.
LinkedPulls(c) ==
    UNION {{<<PrUrlMatches(c.body[j])[m][1], IntOf(PrUrlMatches(c.body[j])[m][2])>> :
               m \in 1..Len(PrUrlMatches(c.body[j]))} : j \in 1..Len(c.body)}

\* C24: every target comes from a comment of the handle on an issue of the
\* search result: a target with a pull request from a comment of the handle
\* that links to that pull request, a target without one from a comment of the
\* handle without any link, with pr_repo the repository of the issue; links
\* in the comments of others give no target, nor does an issue without a
\* comment of the handle; and each issue with a comment of the handle that
\* links to no pull request gives a target without a pull request.
C24_OnlyTheHandlesComments ==
    (discoverCall.done /\ discoverCall.raised = "") =>
        /\ \A k \in 1..Len(discoverCall.out) :
              LET t == discoverCall.out[k]
              IN  \E i \in ReadItems :
                      /\ search.value.items[i].number = t.issue
                      /\ RepoOf(search.value.items[i].repository_url) = t.issue_repo
                      /\ \E c \in HandleComments(t.issue) :
                             IF Len(t.pr) = 0
                             THEN LinkedPulls(c) = {} /\ t.pr_repo = t.issue_repo
                             ELSE <<t.pr_repo, t.pr[1]>> \in LinkedPulls(c)
        /\ \A i \in ReadItems :
              LET n == search.value.items[i].number
              IN  (\E c \in HandleComments(n) : LinkedPulls(c) = {}) =>
                      \E k \in 1..Len(discoverCall.out) :
                          /\ discoverCall.out[k].issue = n
                          /\ Len(discoverCall.out[k].pr) = 0
                          /\ discoverCall.out[k].pr_repo = discoverCall.out[k].issue_repo

\* Somebody else linked a pull request on issue 34 and the handle commented
\* without a link: the one target is issue 34 without a pull request.
C24_Witness ==
    /\ discoverCall.done /\ discoverCall.raised = ""
    /\ Len(search.value.items) = 1
    /\ search.value.items[1].number = 34
    /\ threads[34].raised = ""
    /\ Len(threads[34].value.items) = 2
    /\ threads[34].value.items[1].login = "someone-else"
    /\ threads[34].value.items[1].body = <<UrlB>>
    /\ threads[34].value.items[2].body = <<"claiming">>
    /\ Len(discoverCall.out) = 1
    /\ discoverCall.out[1].issue = 34
    /\ discoverCall.out[1].pr = <<>>

-----------------------------------------------------------------------------
(* Claims about monitoring *)

\* C16: whatever requests fail, the monitor run completes with one row per
\* target, in the order of the targets; a failed pull request fetch gives
\* pr_state "unknown" and merged false, a failed issue fetch issue_state
\* "unknown", a failed comment fetch payout_signal "none".
C16_MonitorDegrades ==
    monitorCall.done =>
        /\ monitorCall.raised = ""
        /\ Len(monitorCall.rows) = Len(targets)
        /\ \A k \in 1..Len(monitorCall.rows) :
              LET row == monitorCall.rows[k]
              IN  /\ row.issue = <<targets[k].issue_repo, targets[k].issue>>
                  /\ (Len(targets[k].pr) > 0 /\ answers[k].pr.raised # "") =>
                         row.pr_state = "unknown" /\ ~row.merged
                  /\ answers[k].issue.raised # "" => row.issue_state = "unknown"
                  /\ answers[k].comments.raised # "" => row.payout_signal = "none"

\* C19: once paid, always complete: a monitor run that finds a paid cue in
\* the comments of the tracked issue reports the payout action "complete",
\* whatever other cues the comments hold; as comments are only appended, so
\* does every later run.
C19_OncePaidAlwaysComplete ==
    (monitorCall.done /\ monitorCall.raised = "") =>
        \A k \in 1..Len(monitorCall.rows) :
            HasPaidCue(answers[k].comments.value.items) =>
                monitorCall.rows[k].payout_action = "complete"

\* C26: for a target without a pull request number no pull request is asked
\* for, and its row has pr_state "missing", merged false and no pull request
\* link; so its payout action is neither request_payout nor check_followup
\* but one of complete, wait_payout_queue, address_review, verify_closure and
\* wait_for_review.
C26_NoPullNoPullFetch ==
    (monitorCall.done /\ monitorCall.raised = "") =>
        \A k \in 1..Len(monitorCall.rows) :
            Len(targets[k].pr) = 0 =>
                LET row == monitorCall.rows[k]
                IN  /\ \A r \in 1..Len(monitorCall.requests) :
                          monitorCall.requests[r][1] = "pulls" =>
                              \E j \in 1..Len(targets) :
                                  /\ Len(targets[j].pr) > 0
                                  /\ monitorCall.requests[r][2] = targets[j].pr_repo
                                  /\ monitorCall.requests[r][3] = targets[j].pr[1]
                    /\ row.pr_state = "missing"
                    /\ ~row.merged
                    /\ row.pr = <<>>
                    /\ row.payout_action \in {"complete", "wait_payout_queue", "address_review",
                                              "verify_closure", "wait_for_review"}

\* A run over a target without a pull request, at a time when a request for
\* a pull request would not have been answered and no comment could be read.
C26_Witness ==
    /\ monitorCall.done /\ monitorCall.raised = ""
    /\ Len(targets) = 1
    /\ targets[1].pr = <<>>
    /\ answers[1].pr.raised = "JSONDecodeError"
    /\ answers[1].comments.raised = "URLError"
    /\ Len(monitorCall.requests) = 2
    /\ monitorCall.rows[1].pr_state = "missing"
    /\ monitorCall.rows[1].payout_action = "wait_for_review"

-----------------------------------------------------------------------------
(* Claims about malformed answers *)

\* C23: an answer of an unexpected shape counts as no data and raises
\* nothing: a listing that is not a list gives no leads; in a monitor run an
\* issue that is not a dict gives issue_state "unknown", comments that are
\* not a list the signal "none", a pull request that is not a dict pr_state
\* "unknown" and merged false; a search result that is not a dict, or whose
\* items are not a list, gives no targets, and neither does an issue whose
\* comments are not a list.
C23_MalformedIsNoData ==
    /\ (scanCall.done /\ ~listing.value.isList) =>
           scanCall.raised = "" /\ scanCall.leads = <<>>
    /\ monitorCall.done =>
           /\ monitorCall.raised = ""
           /\ Len(monitorCall.rows) = Len(targets)
           /\ \A k \in 1..Len(monitorCall.rows) :
                 LET row == monitorCall.rows[k]
                 IN  /\ ~answers[k].issue.value.isDict => row.issue_state = "unknown"
                     /\ ~answers[k].comments.value.isList => row.payout_signal = "none"
                     /\ (Len(targets[k].pr) > 0 /\ ~answers[k].pr.value.isDict) =>
                            row.pr_state = "unknown" /\ ~row.merged
    /\ discoverCall.done =>
           /\ discoverCall.raised = ""
           /\ (~search.value.isDict \/ ~search.value.itemsIsList) => discoverCall.out = <<>>
           /\ \A k \in 1..Len(discoverCall.out) :
                 threads[discoverCall.out[k].issue].value.isList

-----------------------------------------------------------------------------
(* Claims about the beacon bridge *)

\* The kind of event each method of the bridge records.
KindOf(op) ==
    CASE op = "ping" -> "heartbeat"
      [] op = "mayday" -> "mayday"
      [] op = "contract_offer" -> "contract_offer"
      [] OTHER -> ""

\* C27: every call of ping, mayday or contract_offer appends exactly one
\* event of the matching kind (heartbeat, mayday, contract_offer) to the end
\* of the history of the in-memory bridge and leaves the earlier events as
\* they were; run_demo returns, and appends to the history, exactly three
\* events, in the order heartbeat, mayday, contract_offer.
C27_EventLogAppendOnly ==
    [][LET n == Len(events)
           call == beaconCall'
       IN  /\ call.op \in {"ping", "mayday", "contract_offer", "run_demo"}
           /\ SubSeq(events', 1, n) = events
           /\ call.op \in {"ping", "mayday", "contract_offer"} =>
                  /\ Len(events') = n + 1
                  /\ events'[n + 1].kind = KindOf(call.op)
                  /\ call.returned = <<events'[n + 1]>>
           /\ call.op = "run_demo" =>
                  /\ Len(events') = n + 3
                  /\ call.returned = SubSeq(events', n + 1, n + 3)
                  /\ [k \in 1..3 |-> call.returned[k].kind]
                         = <<"heartbeat", "mayday", "contract_offer">>
      ]_<<events, beaconCall>>

\* run_demo on a bridge that already holds a mayday sent without an urgency.
C27_Witness ==
    /\ beaconCall.op = "run_demo"
    /\ Len(events) = 4
    /\ events[1].kind = "mayday"
    /\ "urgency" \notin DOMAIN events[1].payload.details
    /\ events[1].payload.urgency = "medium"
    /\ beaconCall.returned = SubSeq(events, 2, 4)

-----------------------------------------------------------------------------
(* Specifications *)

\* The state before any call: no comment, no call made, nothing posted.
Init ==
    /\ comments = <<>>
    /\ sigCall = NoSigCall
    /\ actCall = NoActCall
    /\ prevCall = NoActCall
    /\ post = NoPost
    /\ httpPosts = 0
    /\ written = 0
    /\ title = <<>>
    /\ body = <<>>
    /\ reward = NoReward
    /\ difficulty = NoDifficulty
    /\ fit = NoFit
    /\ rank = NoRank
    /\ listing = Ok([isList |-> TRUE, items |-> <<>>])
    /\ scanCall = NoScan
    /\ detail = Raise("URLError")
    /\ claimCall = NoClaim
    /\ search = Ok([isDict |-> TRUE, itemsIsList |-> TRUE, items |-> <<>>])
    /\ threads = [n \in IssueNumbers |-> Ok([isList |-> TRUE, items |-> <<>>])]
    /\ discoverCall = NoDiscover
    /\ targets = <<>>
    /\ answers = <<>>
    /\ monitorCall = NoMonitor
    /\ events = <<>>
    /\ beaconCall = NoBeacon

NextSignal ==
    \/ \E b \in CommentBodies : AddComment(b)
    \/ CallPayoutSignal

SpecSignal == Init /\ [][NextSignal]_vars

NextClassify ==
    \E m \in BOOLEAN, p \in PrStates, i \in IssueStates, s \in Signals :
        CallClassify(m, p, i, s)

SpecClassify == Init /\ [][NextClassify]_vars

NextPost ==
    \E nd \in BOOLEAN, c \in BOOLEAN, t \in Tokens, l \in BodyLens, ok \in BOOLEAN :
        MainPostComment(nd, c, t, l, ok)

SpecPost == Init /\ [][NextPost]_vars

\* parse_reward is a pure function: the title and the body are drawn in the
\* initial state, MaxTextLen tokens at most between them.
InitReward ==
    /\ comments = <<>>
    /\ sigCall = NoSigCall
    /\ actCall = NoActCall
    /\ prevCall = NoActCall
    /\ post = NoPost
    /\ httpPosts = 0
    /\ written = 0
    /\ title \in SeqsUpTo(TitleToks, MaxTextLen)
    /\ body \in SeqsUpTo(BodyToks, MaxTextLen - Len(title))
    /\ reward = NoReward
    /\ difficulty = NoDifficulty
    /\ fit = NoFit
    /\ rank = NoRank
    /\ listing = Ok([isList |-> TRUE, items |-> <<>>])
    /\ scanCall = NoScan
    /\ detail = Raise("URLError")
    /\ claimCall = NoClaim
    /\ search = Ok([isDict |-> TRUE, itemsIsList |-> TRUE, items |-> <<>>])
    /\ threads = [n \in IssueNumbers |-> Ok([isList |-> TRUE, items |-> <<>>])]
    /\ discoverCall = NoDiscover
    /\ targets = <<>>
    /\ answers = <<>>
    /\ monitorCall = NoMonitor
    /\ events = <<>>
    /\ beaconCall = NoBeacon

NextReward == CallParseReward

SpecReward == InitReward /\ [][NextReward]_vars

\* estimate_difficulty is a pure function of the title and the body.
InitDifficulty ==
    /\ comments = <<>>
    /\ sigCall = NoSigCall
    /\ actCall = NoActCall
    /\ prevCall = NoActCall
    /\ post = NoPost
    /\ httpPosts = 0
    /\ written = 0
    /\ title \in SeqsUpTo(DiffToks, MaxTextLen)
    /\ body \in SeqsUpTo(DiffToks, MaxTextLen - Len(title))
    /\ reward = NoReward
    /\ difficulty = NoDifficulty
    /\ fit = NoFit
    /\ rank = NoRank
    /\ listing = Ok([isList |-> TRUE, items |-> <<>>])
    /\ scanCall = NoScan
    /\ detail = Raise("URLError")
    /\ claimCall = NoClaim
    /\ search = Ok([isDict |-> TRUE, itemsIsList |-> TRUE, items |-> <<>>])
    /\ threads = [n \in IssueNumbers |-> Ok([isList |-> TRUE, items |-> <<>>])]
    /\ discoverCall = NoDiscover
    /\ targets = <<>>
    /\ answers = <<>>
    /\ monitorCall = NoMonitor
    /\ events = <<>>
    /\ beaconCall = NoBeacon

NextDifficulty == CallEstimateDifficulty

SpecDifficulty == InitDifficulty /\ [][NextDifficulty]_vars

\* capability_fit is a pure function of the title and the body.
InitFit ==
    /\ comments = <<>>
    /\ sigCall = NoSigCall
    /\ actCall = NoActCall
    /\ prevCall = NoActCall
    /\ post = NoPost
    /\ httpPosts = 0
    /\ written = 0
    /\ title \in SeqsUpTo(FitToks, MaxTextLen)
    /\ body \in SeqsUpTo(FitToks, MaxTextLen - Len(title))
    /\ reward = NoReward
    /\ difficulty = NoDifficulty
    /\ fit = NoFit
    /\ rank = NoRank
    /\ listing = Ok([isList |-> TRUE, items |-> <<>>])
    /\ scanCall = NoScan
    /\ detail = Raise("URLError")
    /\ claimCall = NoClaim
    /\ search = Ok([isDict |-> TRUE, itemsIsList |-> TRUE, items |-> <<>>])
    /\ threads = [n \in IssueNumbers |-> Ok([isList |-> TRUE, items |-> <<>>])]
    /\ discoverCall = NoDiscover
    /\ targets = <<>>
    /\ answers = <<>>
    /\ monitorCall = NoMonitor
    /\ events = <<>>
    /\ beaconCall = NoBeacon

NextFit == CallCapabilityFit

SpecFit == InitFit /\ [][NextFit]_vars

InitRank ==
    /\ comments = <<>>
    /\ sigCall = NoSigCall
    /\ actCall = NoActCall
    /\ prevCall = NoActCall
    /\ post = NoPost
    /\ httpPosts = 0
    /\ written = 0
    /\ title = <<>>
    /\ body = <<>>
    /\ reward = NoReward
    /\ difficulty = NoDifficulty
    /\ fit = NoFit
    /\ rank \in {[NoRank EXCEPT !.usd = u, !.diff = d, !.fit = f] :
                   u \in RankUsd, d \in Difficulties, f \in FitValues}
    /\ listing = Ok([isList |-> TRUE, items |-> <<>>])
    /\ scanCall = NoScan
    /\ detail = Raise("URLError")
    /\ claimCall = NoClaim
    /\ search = Ok([isDict |-> TRUE, itemsIsList |-> TRUE, items |-> <<>>])
    /\ threads = [n \in IssueNumbers |-> Ok([isList |-> TRUE, items |-> <<>>])]
    /\ discoverCall = NoDiscover
    /\ targets = <<>>
    /\ answers = <<>>
    /\ monitorCall = NoMonitor
    /\ events = <<>>
    /\ beaconCall = NoBeacon

NextRank == CallRankScore

SpecRank == InitRank /\ [][NextRank]_vars

InitScan ==
    /\ comments = <<>>
    /\ sigCall = NoSigCall
    /\ actCall = NoActCall
    /\ prevCall = NoActCall
    /\ post = NoPost
    /\ httpPosts = 0
    /\ written = 0
    /\ title = <<>>
    /\ body = <<>>
    /\ reward = NoReward
    /\ difficulty = NoDifficulty
    /\ fit = NoFit
    /\ rank = NoRank
    /\ listing \in Listings
    /\ scanCall \in {[NoScan EXCEPT !.top = t, !.min_usd = m] : t \in -1..MaxTop, m \in Floors}
    /\ detail = Raise("URLError")
    /\ claimCall = NoClaim
    /\ search = Ok([isDict |-> TRUE, itemsIsList |-> TRUE, items |-> <<>>])
    /\ threads = [n \in IssueNumbers |-> Ok([isList |-> TRUE, items |-> <<>>])]
    /\ discoverCall = NoDiscover
    /\ targets = <<>>
    /\ answers = <<>>
    /\ monitorCall = NoMonitor
    /\ events = <<>>
    /\ beaconCall = NoBeacon

NextScan == CallScan

SpecScan == InitScan /\ [][NextScan]_vars

InitRead ==
    /\ comments = <<>>
    /\ sigCall = NoSigCall
    /\ actCall = NoActCall
    /\ prevCall = NoActCall
    /\ post = NoPost
    /\ httpPosts = 0
    /\ written = 0
    /\ title = <<>>
    /\ body = <<>>
    /\ reward = NoReward
    /\ difficulty = NoDifficulty
    /\ fit = NoFit
    /\ rank = NoRank
    /\ listing \in Listings
    /\ scanCall = [NoScan EXCEPT !.top = MaxTop]
    /\ detail \in Details
    /\ claimCall = NoClaim
    /\ search = Ok([isDict |-> TRUE, itemsIsList |-> TRUE, items |-> <<>>])
    /\ threads = [n \in IssueNumbers |-> Ok([isList |-> TRUE, items |-> <<>>])]
    /\ discoverCall = NoDiscover
    /\ targets = <<>>
    /\ answers = <<>>
    /\ monitorCall = NoMonitor
    /\ events = <<>>
    /\ beaconCall = NoBeacon

NextRead ==
    \/ CallScan
    \/ MainClaimTemplate

SpecRead == InitRead /\ [][NextRead]_vars

InitDiscover ==
    /\ comments = <<>>
    /\ sigCall = NoSigCall
    /\ actCall = NoActCall
    /\ prevCall = NoActCall
    /\ post = NoPost
    /\ httpPosts = 0
    /\ written = 0
    /\ title = <<>>
    /\ body = <<>>
    /\ reward = NoReward
    /\ difficulty = NoDifficulty
    /\ fit = NoFit
    /\ rank = NoRank
    /\ listing = Ok([isList |-> TRUE, items |-> <<>>])
    /\ scanCall = NoScan
    /\ detail = Raise("URLError")
    /\ claimCall = NoClaim
    /\ search \in Searches
    /\ threads \in [IssueNumbers -> ThreadAnswers]
    /\ discoverCall = NoDiscover
    /\ targets = <<>>
    /\ answers = <<>>
    /\ monitorCall = NoMonitor
    /\ events = <<>>
    /\ beaconCall = NoBeacon

NextDiscover == CallDiscover

SpecDiscover == InitDiscover /\ [][NextDiscover]_vars

InitMonitor ==
    /\ comments = <<>>
    /\ sigCall = NoSigCall
    /\ actCall = NoActCall
    /\ prevCall = NoActCall
    /\ post = NoPost
    /\ httpPosts = 0
    /\ written = 0
    /\ title = <<>>
    /\ body = <<>>
    /\ reward = NoReward
    /\ difficulty = NoDifficulty
    /\ fit = NoFit
    /\ rank = NoRank
    /\ listing = Ok([isList |-> TRUE, items |-> <<>>])
    /\ scanCall = NoScan
    /\ detail = Raise("URLError")
    /\ claimCall = NoClaim
    /\ search = Ok([isDict |-> TRUE, itemsIsList |-> TRUE, items |-> <<>>])
    /\ threads = [n \in IssueNumbers |-> Ok([isList |-> TRUE, items |-> <<>>])]
    /\ discoverCall = NoDiscover
    /\ targets \in SeqsUpTo(MonitorTargetSet, MaxTargets)
    /\ answers \in [1..Len(targets) -> TargetAnswers]
    /\ monitorCall = NoMonitor
    /\ events = <<>>
    /\ beaconCall = NoBeacon

NextMonitor == CallMonitor

SpecMonitor == InitMonitor /\ [][NextMonitor]_vars

InitWatch ==
    /\ comments = <<>>
    /\ sigCall = NoSigCall
    /\ actCall = NoActCall
    /\ prevCall = NoActCall
    /\ post = NoPost
    /\ httpPosts = 0
    /\ written = 0
    /\ title = <<>>
    /\ body = <<>>
    /\ reward = NoReward
    /\ difficulty = NoDifficulty
    /\ fit = NoFit
    /\ rank = NoRank
    /\ listing = Ok([isList |-> TRUE, items |-> <<>>])
    /\ scanCall = NoScan
    /\ detail = Raise("URLError")
    /\ claimCall = NoClaim
    /\ search = Ok([isDict |-> TRUE, itemsIsList |-> TRUE, items |-> <<>>])
    /\ threads = [n \in IssueNumbers |-> Ok([isList |-> TRUE, items |-> <<>>])]
    /\ discoverCall = NoDiscover
    /\ targets \in {<<t>> : t \in MonitorTargetSet}
    /\ answers \in {<<a>> : a \in WatchAnswers}
    /\ monitorCall = NoMonitor
    /\ events = <<>>
    /\ beaconCall = NoBeacon

NextWatch ==
    \/ \E b \in CommentBodies : AddComment(b)
    \/ WatchRun

SpecWatch == InitWatch /\ [][NextWatch]_vars

InitShapes ==
    /\ comments = <<>>
    /\ sigCall = NoSigCall
    /\ actCall = NoActCall
    /\ prevCall = NoActCall
    /\ post = NoPost
    /\ httpPosts = 0
    /\ written = 0
    /\ title = <<>>
    /\ body = <<>>
    /\ reward = NoReward
    /\ difficulty = NoDifficulty
    /\ fit = NoFit
    /\ rank = NoRank
    /\ listing \in {l \in Listings : l.raised = "" /\ Len(l.value.items) <= 1}
    /\ scanCall = NoScan
    /\ detail = Raise("URLError")
    /\ claimCall = NoClaim
    /\ search \in {s \in Searches : s.raised = "" /\ Len(s.value.items) <= 1}
    /\ threads \in {[n \in IssueNumbers |-> a] :
                      a \in {a \in ThreadAnswers : a.raised = "" /\ Len(a.value.items) <= 1}}
    /\ discoverCall = NoDiscover
    /\ targets \in {<<t>> : t \in MonitorTargetSet}
    /\ answers \in {<<a>> : a \in ShapedAnswers}
    /\ monitorCall = NoMonitor
    /\ events = <<>>
    /\ beaconCall = NoBeacon

NextShapes ==
    \/ CallScan
    \/ CallMonitor
    \/ CallDiscover

SpecShapes == InitShapes /\ [][NextShapes]_vars

\* A bridge as __init__ leaves it, lines 54-55.
InitBeacon ==
    /\ comments = <<>>
    /\ sigCall = NoSigCall
    /\ actCall = NoActCall
    /\ prevCall = NoActCall
    /\ post = NoPost
    /\ httpPosts = 0
    /\ written = 0
    /\ title = <<>>
    /\ body = <<>>
    /\ reward = NoReward
    /\ difficulty = NoDifficulty
    /\ fit = NoFit
    /\ rank = NoRank
    /\ listing = Ok([isList |-> TRUE, items |-> <<>>])
    /\ scanCall = NoScan
    /\ detail = Raise("URLError")
    /\ claimCall = NoClaim
    /\ search = Ok([isDict |-> TRUE, itemsIsList |-> TRUE, items |-> <<>>])
    /\ threads = [n \in IssueNumbers |-> Ok([isList |-> TRUE, items |-> <<>>])]
    /\ discoverCall = NoDiscover
    /\ targets = <<>>
    /\ answers = <<>>
    /\ monitorCall = NoMonitor
    /\ events = <<>>
    /\ beaconCall = NoBeacon

NextBeacon ==
    \/ CallPing
    \/ CallMayday
    \/ CallContractOffer
    \/ CallRunDemo

SpecBeacon == InitBeacon /\ [][NextBeacon]_vars

====
